---- MODULE Spec2Model ----
(***************************************************************************)
(* Model of the citation segmentation and field-extraction engine of       *)
(* scripts/abstract_parser.py (class AbstractParser).                      *)
(*                                                                         *)
(* A text is the sequence of its lines (the text split at "\n").  A line   *)
(* is "" (empty), " " (whitespace only) or one of the sample lines of the  *)
(* table Line below; each sample stands for the lines on which every       *)
(* pattern of the parser gives the same answer.  The absent text (None) is *)
(* the sequence of no lines: a string always has at least one line.        *)
(* A title or an abstract body, which the code builds with ' '.join, is    *)
(* the sequence of the lines joined; the empty sequence is the string "".  *)
(* An optional value is None (<<>>) or Some(x) (<<x>>).                    *)
(***************************************************************************)
EXTENDS Integers, Sequences, FiniteSets, TLC

\* ------------------------------------------------------------------ bounds
MaxLines == 4
MaxBlocks == 2
MaxCalls == 2

\* ------------------------------------------------------- program constants
MinYear == 1900
MaxYear == 2030
MinTitleLen == 5
MinAbstractLen == 50
DefaultSeparator == 3

None == <<>>
Some(x) == <<x>>

\* Python truthiness of an Optional[str]: None and "" are both falsy.
Falsy(o) == o = None \/ o = Some("")

\* ------------------------------------------------------------ sample lines
\* name       text of the line
\*   HeadA      1. Future Healthc J. 2019 Jun;6(2):94-98. doi: 10.7861/futurehosp.6-2-94.
\*   HeadB      2. Clin Microbiol Infect. 2020 May;26(5):584-595.
\*   HeadOld    3. Med Hist. 1850 Jan;1(1):1-9.
\*   HeadLoose  4. Preprint posted 2031, revised 2020
\*   NumBody    45. Patients were enrolled at three sites and followed for twelve months.
\*   Title      The potential for artificial intelligence.
\*   Title2     Machine learning for decision support.
\*   Prose      The complexity and rise of data in healthcare means that AI will increasingly be applied.
\*   Prose2     Several types of AI are already being employed by payers and providers of care.
\*   Tiny       Aims.
\*   Author1    Davenport T(1), Kalakota R(2).
\*   AuthorLong Peiffer-Smadja N(1), Rawson TM(2), Ahmad R(2), Buchard A(3), Georgiou P(4),
\*   AuthorCont Lescure FX(5), Birgand G(2), Holmes AH(2), Whitfield-Lang B(3), Okonkwo P(4).
\*   AuthInfo   Author information:
\*   Affil      (1)Babson College, Wellesley, USA.
\*   DoiLine    DOI: 10.1016/j.cmi.2019.09.009
\*   PmidLine   PMID: 31363513
\*   PmcidLine  PMCID: PMC6616181
\*   Copyright  Copyright (c) 2019 Elsevier Ltd. All rights reserved. Published by Elsevier.
\*   Epub       Epub 2019 Sep 17.
\* Per sample line, the answers of the parser's patterns on it:
\*   len     len(line)
\*   pre     which of the literal prefixes tested with startswith it has
\*   num     re '\d+\.\s' matches at its start (the split pattern's lookahead)
\*   cite    re '^\d+\.\s+.*?\d{4}' matches (citation_pattern; the same lines
\*           match '^\d+\.\s+.*\d{4}' of extract_title)
\*   auth    re '[A-Za-z]+\s+[A-Z]+\(\d+\)' is found in it
\*   paren   re '^\([^)]*\)' matches;  pnum  re '\(\d+\)' is found in it
\*   journal, year4   groups 1 and 2 of '^\d+\.\s*(.+?)\.\s*(\d{4})', if it matches
\*   scan    re.findall of '\b((?:19|20)\d{2})\b'
\*   doi, pmid, pmcid  group 1 of the first match of doi_pattern, pmid_pattern,
\*           pmcid_pattern (all IGNORECASE) in it
\*   dot     it ends with '.';  cont  it holds one of ',', 'FX', 'AH', 'TM'
\*   names   (for the lines extract_authors can collect) the pieces of the
\*           line split at ',' after the '(n)' markers are removed, stripped:
\*           the piece, the piece without trailing '.', its number of words,
\*           whether it holds a digit
Line ==
  "HeadA" :> [len |-> 73, pre |-> "", num |-> TRUE, cite |-> TRUE, auth |-> FALSE,
      paren |-> FALSE, pnum |-> TRUE, journal |-> <<"Future Healthc J">>, year4 |-> <<2019>>, scan |-> <<2019>>,
      doi |-> <<"10.7861/futurehosp.6-2-94.">>, pmid |-> <<>>, pmcid |-> <<>>, dot |-> TRUE, cont |-> FALSE] @@
  "HeadB" :> [len |-> 49, pre |-> "", num |-> TRUE, cite |-> TRUE, auth |-> FALSE,
      paren |-> FALSE, pnum |-> TRUE, journal |-> <<"Clin Microbiol Infect">>, year4 |-> <<2020>>, scan |-> <<2020>>,
      doi |-> <<>>, pmid |-> <<>>, pmcid |-> <<>>, dot |-> TRUE, cont |-> FALSE] @@
  "HeadOld" :> [len |-> 31, pre |-> "", num |-> TRUE, cite |-> TRUE, auth |-> FALSE,
      paren |-> FALSE, pnum |-> TRUE, journal |-> <<"Med Hist">>, year4 |-> <<1850>>, scan |-> <<>>,
      doi |-> <<>>, pmid |-> <<>>, pmcid |-> <<>>, dot |-> TRUE, cont |-> FALSE] @@
  "HeadLoose" :> [len |-> 37, pre |-> "", num |-> TRUE, cite |-> TRUE, auth |-> FALSE,
      paren |-> FALSE, pnum |-> FALSE, journal |-> <<>>, year4 |-> <<>>, scan |-> <<2031, 2020>>,
      doi |-> <<>>, pmid |-> <<>>, pmcid |-> <<>>, dot |-> FALSE, cont |-> TRUE] @@
  "NumBody" :> [len |-> 73, pre |-> "", num |-> TRUE, cite |-> FALSE, auth |-> FALSE,
      paren |-> FALSE, pnum |-> FALSE, journal |-> <<>>, year4 |-> <<>>, scan |-> <<>>,
      doi |-> <<>>, pmid |-> <<>>, pmcid |-> <<>>, dot |-> TRUE, cont |-> FALSE] @@
  "Title" :> [len |-> 42, pre |-> "", num |-> FALSE, cite |-> FALSE, auth |-> FALSE,
      paren |-> FALSE, pnum |-> FALSE, journal |-> <<>>, year4 |-> <<>>, scan |-> <<>>,
      doi |-> <<>>, pmid |-> <<>>, pmcid |-> <<>>, dot |-> TRUE, cont |-> FALSE] @@
  "Title2" :> [len |-> 38, pre |-> "", num |-> FALSE, cite |-> FALSE, auth |-> FALSE,
      paren |-> FALSE, pnum |-> FALSE, journal |-> <<>>, year4 |-> <<>>, scan |-> <<>>,
      doi |-> <<>>, pmid |-> <<>>, pmcid |-> <<>>, dot |-> TRUE, cont |-> FALSE] @@
  "Prose" :> [len |-> 89, pre |-> "", num |-> FALSE, cite |-> FALSE, auth |-> FALSE,
      paren |-> FALSE, pnum |-> FALSE, journal |-> <<>>, year4 |-> <<>>, scan |-> <<>>,
      doi |-> <<>>, pmid |-> <<>>, pmcid |-> <<>>, dot |-> TRUE, cont |-> FALSE] @@
  "Prose2" :> [len |-> 79, pre |-> "", num |-> FALSE, cite |-> FALSE, auth |-> FALSE,
      paren |-> FALSE, pnum |-> FALSE, journal |-> <<>>, year4 |-> <<>>, scan |-> <<>>,
      doi |-> <<>>, pmid |-> <<>>, pmcid |-> <<>>, dot |-> TRUE, cont |-> FALSE] @@
  "Tiny" :> [len |-> 5, pre |-> "", num |-> FALSE, cite |-> FALSE, auth |-> FALSE,
      paren |-> FALSE, pnum |-> FALSE, journal |-> <<>>, year4 |-> <<>>, scan |-> <<>>,
      doi |-> <<>>, pmid |-> <<>>, pmcid |-> <<>>, dot |-> TRUE, cont |-> FALSE] @@
  "Author1" :> [len |-> 30, pre |-> "", num |-> FALSE, cite |-> FALSE, auth |-> TRUE,
      paren |-> FALSE, pnum |-> TRUE, journal |-> <<>>, year4 |-> <<>>, scan |-> <<>>,
      doi |-> <<>>, pmid |-> <<>>, pmcid |-> <<>>, dot |-> TRUE, cont |-> TRUE,
      names |-> << [s |-> "Davenport T", nodot |-> "Davenport T", words |-> 2, digit |-> FALSE],
                   [s |-> "Kalakota R.", nodot |-> "Kalakota R", words |-> 2, digit |-> FALSE] >>] @@
  "AuthorLong" :> [len |-> 75, pre |-> "", num |-> FALSE, cite |-> FALSE, auth |-> TRUE,
      paren |-> FALSE, pnum |-> TRUE, journal |-> <<>>, year4 |-> <<>>, scan |-> <<>>,
      doi |-> <<>>, pmid |-> <<>>, pmcid |-> <<>>, dot |-> FALSE, cont |-> TRUE,
      names |-> << [s |-> "Peiffer-Smadja N", nodot |-> "Peiffer-Smadja N", words |-> 2, digit |-> FALSE],
                   [s |-> "Rawson TM", nodot |-> "Rawson TM", words |-> 2, digit |-> FALSE],
                   [s |-> "Ahmad R", nodot |-> "Ahmad R", words |-> 2, digit |-> FALSE],
                   [s |-> "Buchard A", nodot |-> "Buchard A", words |-> 2, digit |-> FALSE],
                   [s |-> "Georgiou P", nodot |-> "Georgiou P", words |-> 2, digit |-> FALSE],
                   [s |-> "", nodot |-> "", words |-> 0, digit |-> FALSE] >>] @@
  "AuthorCont" :> [len |-> 77, pre |-> "", num |-> FALSE, cite |-> FALSE, auth |-> TRUE,
      paren |-> FALSE, pnum |-> TRUE, journal |-> <<>>, year4 |-> <<>>, scan |-> <<>>,
      doi |-> <<>>, pmid |-> <<>>, pmcid |-> <<>>, dot |-> TRUE, cont |-> TRUE,
      names |-> << [s |-> "Lescure FX", nodot |-> "Lescure FX", words |-> 2, digit |-> FALSE],
                   [s |-> "Birgand G", nodot |-> "Birgand G", words |-> 2, digit |-> FALSE],
                   [s |-> "Holmes AH", nodot |-> "Holmes AH", words |-> 2, digit |-> FALSE],
                   [s |-> "Whitfield-Lang B", nodot |-> "Whitfield-Lang B", words |-> 2, digit |-> FALSE],
                   [s |-> "Okonkwo P.", nodot |-> "Okonkwo P", words |-> 2, digit |-> FALSE] >>] @@
  "AuthInfo" :> [len |-> 19, pre |-> "Author information:", num |-> FALSE, cite |-> FALSE, auth |-> FALSE,
      paren |-> FALSE, pnum |-> FALSE, journal |-> <<>>, year4 |-> <<>>, scan |-> <<>>,
      doi |-> <<>>, pmid |-> <<>>, pmcid |-> <<>>, dot |-> FALSE, cont |-> FALSE] @@
  "Affil" :> [len |-> 34, pre |-> "(", num |-> FALSE, cite |-> FALSE, auth |-> FALSE,
      paren |-> TRUE, pnum |-> TRUE, journal |-> <<>>, year4 |-> <<>>, scan |-> <<>>,
      doi |-> <<>>, pmid |-> <<>>, pmcid |-> <<>>, dot |-> TRUE, cont |-> TRUE,
      names |-> << [s |-> "Babson College", nodot |-> "Babson College", words |-> 2, digit |-> FALSE],
                   [s |-> "Wellesley", nodot |-> "Wellesley", words |-> 1, digit |-> FALSE],
                   [s |-> "USA.", nodot |-> "USA", words |-> 1, digit |-> FALSE] >>] @@
  "DoiLine" :> [len |-> 30, pre |-> "DOI:", num |-> FALSE, cite |-> FALSE, auth |-> FALSE,
      paren |-> FALSE, pnum |-> FALSE, journal |-> <<>>, year4 |-> <<>>, scan |-> <<2019>>,
      doi |-> <<"10.1016/j.cmi.2019.09.009">>, pmid |-> <<>>, pmcid |-> <<>>, dot |-> FALSE, cont |-> FALSE] @@
  "PmidLine" :> [len |-> 14, pre |-> "PMID:", num |-> FALSE, cite |-> FALSE, auth |-> FALSE,
      paren |-> FALSE, pnum |-> FALSE, journal |-> <<>>, year4 |-> <<>>, scan |-> <<>>,
      doi |-> <<>>, pmid |-> <<"31363513">>, pmcid |-> <<>>, dot |-> FALSE, cont |-> FALSE] @@
  "PmcidLine" :> [len |-> 17, pre |-> "PMCID:", num |-> FALSE, cite |-> FALSE, auth |-> FALSE,
      paren |-> FALSE, pnum |-> FALSE, journal |-> <<>>, year4 |-> <<>>, scan |-> <<>>,
      doi |-> <<>>, pmid |-> <<>>, pmcid |-> <<"PMC6616181">>, dot |-> FALSE, cont |-> FALSE] @@
  "Copyright" :> [len |-> 76, pre |-> "Copyright", num |-> FALSE, cite |-> FALSE, auth |-> FALSE,
      paren |-> FALSE, pnum |-> FALSE, journal |-> <<>>, year4 |-> <<>>, scan |-> <<2019>>,
      doi |-> <<>>, pmid |-> <<>>, pmcid |-> <<>>, dot |-> TRUE, cont |-> FALSE] @@
  "Epub" :> [len |-> 17, pre |-> "Epub", num |-> FALSE, cite |-> FALSE, auth |-> FALSE,
      paren |-> FALSE, pnum |-> FALSE, journal |-> <<>>, year4 |-> <<>>, scan |-> <<2019>>,
      doi |-> <<>>, pmid |-> <<>>, pmcid |-> <<>>, dot |-> TRUE, cont |-> FALSE] @@
  "DoiEmpty" :> [len |-> 4, pre |-> "DOI:", num |-> FALSE, cite |-> FALSE, auth |-> FALSE,
      paren |-> FALSE, pnum |-> FALSE, journal |-> <<>>, year4 |-> <<>>, scan |-> <<>>,
      doi |-> <<>>, pmid |-> <<>>, pmcid |-> <<>>, dot |-> FALSE, cont |-> FALSE] @@
  "ProseRef" :> [len |-> 77, pre |-> "", num |-> FALSE, cite |-> FALSE, auth |-> FALSE,
      paren |-> FALSE, pnum |-> TRUE, journal |-> <<>>, year4 |-> <<>>, scan |-> <<>>,
      doi |-> <<>>, pmid |-> <<>>, pmcid |-> <<>>, dot |-> TRUE, cont |-> FALSE]

\* The identifier patterns are searched in the whole block and the '\s*' after
\* a label also matches line ends: a label that ends its line with no value
\* takes its value from the start of the next line that is not blank.
\* the lines that end with a label and no value, with the columns of the label
OpenLabel == "DoiEmpty" :> {"doi"}

\* re '[\d\./\-\w]+' (group 1 of doi_pattern) matched at the start of a line
LeadWord ==
  "HeadA" :> "1." @@ "HeadB" :> "2." @@ "HeadOld" :> "3." @@
  "HeadLoose" :> "4." @@ "NumBody" :> "45." @@ "Title" :> "The" @@
  "Title2" :> "Machine" @@ "Prose" :> "The" @@ "Prose2" :> "Several" @@
  "Tiny" :> "Aims." @@ "Author1" :> "Davenport" @@
  "AuthorLong" :> "Peiffer-Smadja" @@ "AuthorCont" :> "Lescure" @@
  "AuthInfo" :> "Author" @@ "DoiLine" :> "DOI" @@ "PmidLine" :> "PMID" @@
  "PmcidLine" :> "PMCID" @@ "Copyright" :> "Copyright" @@ "Epub" :> "Epub" @@
  "DoiEmpty" :> "DOI" @@ "ProseRef" :> "Mortality"

\* re '\d+' (group 1 of pmid_pattern) matched at the start of a line; no
\* sample line starts with 'PMC\d+' (group 1 of pmcid_pattern)
LeadDigits ==
  "HeadA" :> "1" @@ "HeadB" :> "2" @@ "HeadOld" :> "3" @@ "HeadLoose" :> "4" @@
  "NumBody" :> "45"

\* s.rstrip('.') of the captured values that end with '.'
DotStripped ==
  "10.7861/futurehosp.6-2-94." :> "10.7861/futurehosp.6-2-94" @@
  "1." :> "1" @@ "2." :> "2" @@ "3." :> "3" @@ "4." :> "4" @@ "45." :> "45" @@
  "Aims." :> "Aims"

\* ---------------------------------------------------- the parser instance
VARIABLES
  patterns,        \* the pattern attributes of the parser instance
  calls            \* the number of calls made on the instance

\* AbstractParser.__init__: the compiled patterns, each named by the column
\* of Line that holds its answers
PatternTable ==
  [journal_pattern |-> "journal", title_pattern |-> "title",
   authors_pattern |-> "auth", author_extract_pattern |-> "names",
   doi_pattern |-> "doi", pmid_pattern |-> "pmid", pmcid_pattern |-> "pmcid",
   year_pattern |-> "scan"]


SampleLines == DOMAIN Line

\* line.strip() is empty
IsBlank(line) == line \in {"", " "}

\* [line.strip() for line in text.split('\n') if line.strip()]
ContentLines(text) == SelectSeq(text, LAMBDA l : ~IsBlank(l))

\* text.strip(): the text without its leading and trailing blank lines
RECURSIVE LStrip(_)
LStrip(text) ==
  IF text = <<>> THEN <<>>
  ELSE IF IsBlank(Head(text)) THEN LStrip(Tail(text)) ELSE text

RECURSIVE RStrip(_)
RStrip(text) ==
  IF text = <<>> THEN <<>>
  ELSE IF IsBlank(text[Len(text)]) THEN RStrip(SubSeq(text, 1, Len(text) - 1))
  ELSE text

Strip(text) == RStrip(LStrip(text))

\* A faulty variant of IsEmptyText that takes only the absent text for empty:
\* C10_EmptyInput tells it from the code.
IsEmptyText_absent_only(text) == text = <<>>

\* not raw_text or not raw_text.strip()
IsEmptyText(text) == text = <<>> \/ Strip(text) = <<>>

\* the least of the indices that is >= from, or 0 when there is none
FirstIndex(indices, from) ==
  LET S == {i \in indices : i >= from}
  IN IF S = {} THEN 0 ELSE CHOOSE i \in S : \A j \in S : i <= j

\* s.rstrip('.') of a captured identifier
RStripDot(s) == IF s \in DOMAIN DotStripped THEN DotStripped[s] ELSE s

StartsWith(line, prefixes) == ~IsBlank(line) /\ Line[line].pre \in prefixes

\* re.search(r'[A-Za-z]+\s+[A-Z]+\(\d+\)', line)
AuthorShaped(line) == ~IsBlank(line) /\ Line[line].auth

IsAuthorInformation(line) == StartsWith(line, {"Author information:"})

\* an author line of extract_authors: author-shaped and not the label line
AuthorLine(line) == AuthorShaped(line) /\ ~IsAuthorInformation(line)

\* ------------------------------------------------------------ extract_year
RECURSIVE FirstValidYear(_)
FirstValidYear(year_matches) ==
  IF year_matches = <<>> THEN None
  ELSE IF MinYear <= Head(year_matches) /\ Head(year_matches) <= MaxYear
       THEN Some(Head(year_matches))
       ELSE FirstValidYear(Tail(year_matches))

extract_year(line) ==
  IF IsBlank(line) THEN None ELSE FirstValidYear(Line[line].scan)

\* ---------------------------------------------------- extract_journal_info
FirstLine(text) == IF Strip(text) = <<>> THEN "" ELSE Head(Strip(text))

extract_journal_info(text) ==
  LET first_line == FirstLine(text)
  IN IF ~IsBlank(first_line) /\ Line[first_line].year4 # None
     THEN [journal |-> Line[first_line].journal,
           year    |-> Line[first_line].year4,
           doi     |-> IF Line[first_line].doi # None
                       THEN Some(RStripDot(Line[first_line].doi[1]))
                       ELSE None]
     ELSE [journal |-> None, year |-> extract_year(first_line), doi |-> None]

\* ----------------------------------------------------------- extract_title
\* the lines the loop skips: the first line, epub/doi lines, numbered citations
TitleSkipped(i, line) ==
  i = 1 \/ StartsWith(line, {"Epub", "doi:", "DOI:"}) \/ Line[line].cite

\* a line that starts or extends the title
TitleQualifies(line) ==
  /\ ~AuthorShaped(line)
  /\ ~StartsWith(line, {"Author information:", "DOI:", "PMID:", "PMCID:"})
  /\ Line[line].len > MinTitleLen

RECURSIVE TitleLoop(_, _, _, _)
TitleLoop(lines, i, title_lines, start_collecting) ==
  IF i > Len(lines) THEN title_lines
  ELSE IF TitleSkipped(i, lines[i])
       THEN TitleLoop(lines, i + 1, title_lines, start_collecting)
  ELSE IF TitleQualifies(lines[i])
       THEN IF i + 1 <= Len(lines) /\ AuthorShaped(lines[i + 1])
            THEN Append(title_lines, lines[i])
            ELSE TitleLoop(lines, i + 1, Append(title_lines, lines[i]), TRUE)
  ELSE IF start_collecting /\ AuthorShaped(lines[i]) THEN title_lines
  ELSE IF start_collecting /\ IsAuthorInformation(lines[i]) THEN title_lines
  ELSE TitleLoop(lines, i + 1, title_lines, start_collecting)

extract_title(text) ==
  LET title_lines == TitleLoop(ContentLines(text), 1, <<>>, FALSE)
  IN IF title_lines # <<>> THEN Some(title_lines) ELSE None

\* --------------------------------------------------------- extract_authors
\* the author run: from the first author line, the author lines that follow
\* it directly and, after the last of them, one continuation line
RECURSIVE AuthorRun(_, _)
AuthorRun(lines, i) ==
  IF i + 1 <= Len(lines) /\ AuthorLine(lines[i + 1])
  THEN <<lines[i]>> \o AuthorRun(lines, i + 1)
  ELSE IF /\ i + 1 <= Len(lines)
          /\ Line[lines[i + 1]].dot
          /\ ~IsAuthorInformation(lines[i + 1])
          /\ Line[lines[i + 1]].cont
       THEN <<lines[i], lines[i + 1]>>
       ELSE <<lines[i]>>

AuthorLines(lines) ==
  LET i == FirstIndex({k \in 1..Len(lines) : AuthorLine(lines[k])}, 1)
  IN IF i = 0 THEN <<>> ELSE AuthorRun(lines, i)

\* the piece that the end of one line and the start of the next form once the
\* lines are joined with ' ' and split at ','
MergeNames(a, b) ==
  IF a.s = "" THEN b
  ELSE IF b.s = "" THEN a
  ELSE [s |-> a.s \o " " \o b.s, nodot |-> a.s \o " " \o b.nodot,
        words |-> a.words + b.words, digit |-> a.digit \/ b.digit]

\* the pieces of ' '.join(author_lines) with the markers removed, split at ','
RECURSIVE SplitNames(_)
SplitNames(author_lines) ==
  IF Len(author_lines) = 1 THEN Line[author_lines[1]].names
  ELSE LET first == Line[author_lines[1]].names
           rest  == SplitNames(Tail(author_lines))
       IN SubSeq(first, 1, Len(first) - 1)
          \o <<MergeNames(first[Len(first)], Head(rest))>>
          \o Tail(rest)

\* .rstrip('.') of the joined run: only its last piece can change
CleanNames(pieces) ==
  [k \in 1..Len(pieces) |->
     IF k = Len(pieces) THEN [pieces[k] EXCEPT !.s = pieces[k].nodot]
     ELSE pieces[k]]

\* A faulty variant of extract_authors that keeps the one-word entries:
\* C15_EntriesWithoutFinalPeriod tells it from the code.
extract_authors_keeps_single_words(text) ==
  LET author_lines == AuthorLines(ContentLines(text))
  IN IF author_lines = <<>> THEN <<>>
     ELSE LET author_names ==
                SelectSeq(CleanNames(SplitNames(author_lines)),
                          LAMBDA n : n.s # "")
              valid == SelectSeq(author_names, LAMBDA n : ~n.digit)
          IN [k \in 1..Len(valid) |-> valid[k].s]

extract_authors(text) ==
  LET author_lines == AuthorLines(ContentLines(text))
  IN IF author_lines = <<>> THEN <<>>
     ELSE LET author_names ==
                SelectSeq(CleanNames(SplitNames(author_lines)),
                          LAMBDA n : n.s # "")
              valid == SelectSeq(author_names,
                                 LAMBDA n : n.words >= 2 /\ ~n.digit)
          IN [k \in 1..Len(valid) |-> valid[k].s]

\* --------------------------------------------------- extract_abstract_text
\* the line that opens the author section
AuthorSectionStart(line) == IsAuthorInformation(line) \/ AuthorLine(line)

\* a substantial paragraph line after the author section
AbstractStartsAt(line) ==
  /\ Line[line].len > MinAbstractLen
  /\ ~StartsWith(line, {"DOI:", "PMID:", "PMCID:", "Author information:", "("})
  /\ ~Line[line].paren

\* a substantial paragraph line when no structure was found
FallbackStartsAt(line) ==
  /\ Line[line].len > MinAbstractLen
  /\ ~StartsWith(line, {"DOI:", "PMID:", "PMCID:"})
  /\ ~Line[line].pnum

AbstractEndsAt(line) == StartsWith(line, {"DOI:", "PMID:", "PMCID:", "Copyright"})

\* abstract_start, 0 standing for the code's -1
AbstractStart(lines) ==
  LET i == FirstIndex({k \in 1..Len(lines) : AuthorSectionStart(lines[k])}, 1)
      structured ==
        IF i = 0 THEN 0
        ELSE FirstIndex({k \in 1..Len(lines) : AbstractStartsAt(lines[k])}, i + 1)
  IN IF structured # 0 THEN structured
     ELSE FirstIndex({k \in 1..Len(lines) : FallbackStartsAt(lines[k])}, 3)

\* abstract_end, one past the last line of the abstract
AbstractEnd(lines, abstract_start) ==
  LET i == FirstIndex({k \in 1..Len(lines) : AbstractEndsAt(lines[k])}, abstract_start)
  IN IF i = 0 THEN Len(lines) + 1 ELSE i

extract_abstract_text(text) ==
  LET lines == ContentLines(text)
      abstract_start == AbstractStart(lines)
  IN IF abstract_start = 0 THEN <<>>
     ELSE SubSeq(lines, abstract_start, AbstractEnd(lines, abstract_start) - 1)

\* ----------------------------------------------------- extract_identifiers
\* pattern.search(text): group 1 of the first match in the text, the pattern
\* being given by the column of its answers
\* group 1 of the pattern matched at the start of a line
Lead(line, field) ==
  IF field = "doi" /\ line \in DOMAIN LeadWord THEN Some(LeadWord[line])
  ELSE IF field = "pmid" /\ line \in DOMAIN LeadDigits THEN Some(LeadDigits[line])
  ELSE None

\* group 1 of the first match of the pattern that begins in line k: in the
\* line, or from its closing label over the line ends to the next line
MatchAt(text, k, field) ==
  IF Line[text[k]][field] # None THEN Line[text[k]][field]
  ELSE IF text[k] \in DOMAIN OpenLabel /\ field \in OpenLabel[text[k]]
  THEN LET j == FirstIndex({n \in 1..Len(text) : ~IsBlank(text[n])}, k + 1)
       IN IF j = 0 THEN None ELSE Lead(text[j], field)
  ELSE None

FirstMatch(text, field) ==
  LET i == FirstIndex({k \in 1..Len(text) :
                         ~IsBlank(text[k]) /\ MatchAt(text, k, field) # None}, 1)
  IN IF i = 0 THEN None ELSE Some(RStripDot(MatchAt(text, i, field)[1]))

extract_identifiers(text) ==
  [doi   |-> FirstMatch(text, patterns.doi_pattern),
   pmid  |-> FirstMatch(text, patterns.pmid_pattern),
   pmcid |-> FirstMatch(text, patterns.pmcid_pattern)]

\* ---------------------------------------------------------- AbstractRecord
AbstractRecord(title, authors, year, abstract_text, journal, doi, pmid, pmcid, raw) ==
  [title |-> title, authors |-> authors, year |-> year,
   abstract_text |-> abstract_text, journal |-> journal, doi |-> doi,
   pmid |-> pmid, pmcid |-> pmcid, raw_text |-> raw]

\* ------------------------------------------------------ to_dict and to_json
\* the fields of the dataclass
FieldNames ==
  {"title", "authors", "year", "abstract_text", "journal", "doi", "pmid",
   "pmcid", "raw_text"}

\* the fields declared Optional
OptionalFields == {"year", "journal", "doi", "pmid", "pmcid", "raw_text"}

\* the Python type of a field that is not None
FieldType(field) ==
  IF field = "year" THEN "int" ELSE IF field = "authors" THEN "list" ELSE "str"

\* the Python object held by a field of a record: None, an int, a str or a list
PyValue(record, field) ==
  IF field \in OptionalFields
  THEN IF record[field] = None THEN [type |-> "NoneType", v |-> <<>>]
       ELSE [type |-> FieldType(field), v |-> record[field][1]]
  ELSE [type |-> FieldType(field), v |-> record[field]]

\* asdict(self): the dictionary of the fields by name
to_dict(record) == [field \in FieldNames |-> PyValue(record, field)]

\* the JSON type json.dumps writes a Python object as
JsonType ==
  [NoneType |-> "null", int |-> "number", str |-> "string", list |-> "array"]

\* A faulty variant of JsonOf that writes None as an empty string:
\* C12_RoundTrip tells it from the code.
JsonOf_none_as_empty_string(value) ==
  IF value.type = "NoneType" THEN [json |-> "string", v |-> ""]
  ELSE [json |-> JsonType[value.type], v |-> value.v]

\* the JSON value json.dumps writes for a Python object
JsonOf(value) == [json |-> JsonType[value.type], v |-> value.v]

\* json.dumps(self.to_dict(), ...): the JSON object, member by member
to_json(record) ==
  LET d == to_dict(record)
  IN [key \in DOMAIN d |-> JsonOf(d[key])]

\* the Python type json.load reads a JSON value as
PyType ==
  [null |-> "NoneType", number |-> "int", string |-> "str", array |-> "list"]

\* the Python object json.load reads from a JSON value
PyOf(value) == [type |-> PyType[value.json], v |-> value.v]

json_loads(document) == [key \in DOMAIN document |-> PyOf(document[key])]

\* the field of the record built by AbstractRecord(**fields)
FieldValue(fields, field) ==
  IF field \in OptionalFields
  THEN IF fields[field].type = "NoneType" THEN None ELSE Some(fields[field].v)
  ELSE fields[field].v

AbstractRecordFromDict(fields) ==
  AbstractRecord(FieldValue(fields, "title"), FieldValue(fields, "authors"),
                 FieldValue(fields, "year"),
                 FieldValue(fields, "abstract_text"),
                 FieldValue(fields, "journal"), FieldValue(fields, "doi"),
                 FieldValue(fields, "pmid"), FieldValue(fields, "pmcid"),
                 FieldValue(fields, "raw_text"))

\* --------------------------------------------------- parse_single_abstract
\* A faulty variant of parse_single_abstract, without the validation of the
\* title and the abstract text: C1_RecordsValid tells it from the code.
parse_single_abstract_unvalidated(text, with_raw) ==
  IF IsEmptyText(text) THEN None
  ELSE LET info == extract_journal_info(text)
           title == extract_title(text)
           authors == extract_authors(text)
           abstract_text == extract_abstract_text(text)
           ids == extract_identifiers(text)
           doi == IF Falsy(ids.doi) THEN info.doi ELSE ids.doi
       IN Some(AbstractRecord(IF title = None THEN <<>> ELSE title[1], authors,
                              info.year, abstract_text, info.journal, doi,
                              ids.pmid, ids.pmcid,
                              IF with_raw THEN Some(text) ELSE None))

\* None, or Some(record).  The extractors are total on a text, so the except
\* branch of the code is never taken.
parse_single_abstract(text, with_raw) ==
  IF IsEmptyText(text) THEN None
  ELSE LET info == extract_journal_info(text)
           title == extract_title(text)
           authors == extract_authors(text)
           abstract_text == extract_abstract_text(text)
           ids == extract_identifiers(text)
           doi == IF Falsy(ids.doi) THEN info.doi ELSE ids.doi
       IN IF title = None \/ abstract_text = <<>> THEN None
          ELSE Some(AbstractRecord(title[1], authors, info.year, abstract_text,
                                   info.journal, doi, ids.pmid, ids.pmcid,
                                   IF with_raw THEN Some(text) ELSE None))

\* ------------------------------------------------------------ the splitting
\* len(citation_pattern.findall(raw_text)): one match per numbered citation line
CitationCount(text) ==
  Cardinality({k \in 1..Len(text) : ~IsBlank(text[k]) /\ Line[text[k]].cite})

\* re.compile(r'\n(?=\d+\.\s)').split(raw_text): a new piece begins at every
\* line but the first that starts with a number, a period and white space
IsSplitPoint(text, k) == k > 1 /\ ~IsBlank(text[k]) /\ Line[text[k]].num

RECURSIVE CitationSplitFrom(_, _, _)
CitationSplitFrom(text, start, k) ==
  IF k > Len(text) THEN <<SubSeq(text, start, Len(text))>>
  ELSE IF IsSplitPoint(text, k)
       THEN <<SubSeq(text, start, k - 1)>> \o CitationSplitFrom(text, k, k + 1)
       ELSE CitationSplitFrom(text, start, k + 1)

CitationSplit(text) == CitationSplitFrom(text, 1, 2)

\* A faulty variant of SeparatorAt that wants one empty line too many:
\* C8_SplitOnSeparator tells it from the code.
SeparatorAt_off_by_one(text, k, n) ==
  /\ k + n <= Len(text)
  /\ \A j \in (k + 1)..(k + n) : text[j] = ""

\* raw_text.split(separator) for a separator of n >= 1 newlines: the leftmost
\* run of n newlines follows line k when the n - 1 lines after it are empty
SeparatorAt(text, k, n) ==
  /\ k + n <= Len(text)
  /\ \A j \in (k + 1)..(k + n - 1) : text[j] = ""

RECURSIVE SeparatorSplit(_, _)
SeparatorSplit(text, n) ==
  LET S == {k \in 1..Len(text) : SeparatorAt(text, k, n)}
  IN IF S = {} THEN <<text>>
     ELSE LET k == CHOOSE x \in S : \A y \in S : x <= y
          IN <<SubSeq(text, 1, k)>>
             \o SeparatorSplit(SubSeq(text, k + n, Len(text)), n)

\* -------------------------------------------------------------- the state
VARIABLES
  raw_text,        \* the text given to the call
  separator,       \* the separator given to it: the number of its newlines
  include_raw,     \* the include_raw flag given to it
  method,          \* the entry point called
  pc,              \* "call", "loop", "returned" or "raised"
  abstract_texts,  \* the pieces the text was split into
  i,               \* the piece the loop of parse_multiple_abstracts is at
  records,         \* the records collected so far; the result once returned
  parsed,          \* the blocks the extractors have been run on, in order
  serialized,      \* the JSON documents written for the returned records
  restored         \* the records rebuilt from the JSON documents

\* the other components of the tool, which the parser never touches
VARIABLES
  stores,          \* the InMemoryDataStore instances
  file,            \* the JSON file that export_to_json writes
  threads,         \* the threads that call the data store, each with its position
  globals,         \* the globals of the data_store module
  papers,          \* the rows of the research_papers table
  pipeline         \* the ResearchGapPipeline that run_full_pipeline runs

parserVars == <<raw_text, separator, include_raw, method, pc, abstract_texts, i,
                records, parsed, serialized, restored, patterns>>

componentVars == <<stores, file, threads, globals, papers, pipeline>>

vars == <<raw_text, separator, include_raw, method, pc, abstract_texts, i,
          records, parsed, serialized, restored, patterns, calls, stores, file,
          threads, globals, papers, pipeline>>

\* none of the other components has been constructed
NotConstructed ==
  /\ stores = <<>>
  /\ file = <<>>
  /\ threads = <<>>
  /\ globals = <<>>
  /\ papers = <<>>
  /\ pipeline = <<>>

\* ------------------------------------------------------------- the calls
\* the separators a caller passes: "" and runs of one to three newlines
Separators == 0..DefaultSeparator

FreeLines == {"", " ", "HeadA", "HeadOld", "NumBody", "Title", "Prose",
              "DoiLine"}

SeqsUpTo(S, n) == UNION {[1..k -> S] : k \in 0..n}

FreeTexts == SeqsUpTo(FreeLines, MaxLines)

InitWith(texts) ==
  /\ raw_text \in texts
  /\ method \in {"parse_abstract", "parse_multiple_abstracts"}
  /\ separator \in IF method = "parse_abstract" THEN {DefaultSeparator}
                   ELSE Separators
  /\ include_raw \in BOOLEAN
  /\ pc = "call"
  /\ abstract_texts = <<>>
  /\ i = 1
  /\ records = <<>>
  /\ parsed = <<>>
  /\ serialized = <<>>
  /\ restored = <<>>
  /\ patterns = PatternTable
  /\ calls = 1
  /\ NotConstructed

Init == InitWith(FreeTexts)

\* return [] on an empty, absent or whitespace-only text
ReturnEmpty ==
  /\ pc' = "returned"
  /\ records' = <<>>
  /\ UNCHANGED <<abstract_texts, i, parsed>>

\* the body of parse_multiple_abstracts up to its loop
SplitText(sep) ==
  IF IsEmptyText(raw_text) THEN ReturnEmpty
  ELSE IF CitationCount(raw_text) > 1
  THEN /\ abstract_texts' = CitationSplit(raw_text)
       /\ pc' = "loop"
       /\ UNCHANGED <<i, records, parsed>>
  ELSE IF sep = 0
  THEN \* str.split("") raises ValueError: empty separator
       /\ pc' = "raised"
       /\ UNCHANGED <<abstract_texts, i, records, parsed>>
  ELSE /\ abstract_texts' = SeparatorSplit(raw_text, sep)
       /\ pc' = "loop"
       /\ UNCHANGED <<i, records, parsed>>

ParseAbstract ==
  /\ pc = "call"
  /\ method = "parse_abstract"
  /\ IF IsEmptyText(raw_text) THEN ReturnEmpty
     ELSE IF CitationCount(raw_text) > 1 THEN SplitText(DefaultSeparator)
     ELSE LET record == parse_single_abstract(raw_text, include_raw)
          IN /\ parsed' = <<raw_text>>
             /\ records' = IF record = None THEN <<>> ELSE <<record[1]>>
             /\ pc' = "returned"
             /\ UNCHANGED <<abstract_texts, i>>
  /\ UNCHANGED <<raw_text, separator, include_raw, method, serialized, restored,
                 patterns, calls, componentVars>>

ParseMultipleAbstracts ==
  /\ pc = "call"
  /\ method = "parse_multiple_abstracts"
  /\ SplitText(separator)
  /\ UNCHANGED <<raw_text, separator, include_raw, method, serialized, restored,
                 patterns, calls, componentVars>>

\* A faulty variant of ParseNextBlock that keeps the whole input, not the
\* block, as the raw text of a record: C11_RawTextIsBlock tells it from the code.
ParseNextBlock_raw_input ==
  /\ pc = "loop"
  /\ i <= Len(abstract_texts)
  /\ LET abstract_text == Strip(abstract_texts[i])
         record == parse_single_abstract(abstract_text, include_raw)
         raw == IF include_raw THEN Some(raw_text) ELSE None
     IN IF abstract_text = <<>>
        THEN UNCHANGED <<records, parsed>>
        ELSE /\ parsed' = Append(parsed, abstract_text)
             /\ records' = IF record = None THEN records
                           ELSE Append(records, [record[1] EXCEPT !.raw_text = raw])
  /\ i' = i + 1
  /\ UNCHANGED <<raw_text, separator, include_raw, method, pc, abstract_texts,
                 serialized, restored, patterns, calls, componentVars>>

\* A faulty variant of ParseNextBlock that leaves the loop at the first block
\* it rejects: C13_BlocksInIsolation tells it from the code.
ParseNextBlock_stop_at_failure ==
  /\ pc = "loop"
  /\ i <= Len(abstract_texts)
  /\ LET abstract_text == Strip(abstract_texts[i])
         record == parse_single_abstract(abstract_text, include_raw)
     IN IF abstract_text = <<>>
        THEN /\ i' = i + 1
             /\ UNCHANGED <<records, parsed>>
        ELSE /\ parsed' = Append(parsed, abstract_text)
             /\ records' = IF record = None THEN records
                           ELSE Append(records, record[1])
             /\ i' = IF record = None THEN Len(abstract_texts) + 1 ELSE i + 1
  /\ UNCHANGED <<raw_text, separator, include_raw, method, pc, abstract_texts,
                 serialized, restored, patterns, calls, componentVars>>

\* one iteration of the loop over abstract_texts
ParseNextBlock ==
  /\ pc = "loop"
  /\ i <= Len(abstract_texts)
  /\ LET abstract_text == Strip(abstract_texts[i])
         record == parse_single_abstract(abstract_text, include_raw)
     IN IF abstract_text = <<>>
        THEN UNCHANGED <<records, parsed>>
        ELSE /\ parsed' = Append(parsed, abstract_text)
             /\ records' = IF record = None THEN records
                           ELSE Append(records, record[1])
  /\ i' = i + 1
  /\ UNCHANGED <<raw_text, separator, include_raw, method, pc, abstract_texts,
                 serialized, restored, patterns, calls, componentVars>>

\* A faulty variant of ReturnRecords that rebinds the DOI pattern of the
\* instance on its way out: C14_InstanceUnchanged tells it from the code.
ReturnRecords_rebinds_pattern ==
  /\ pc = "loop"
  /\ i > Len(abstract_texts)
  /\ pc' = "returned"
  /\ patterns' = [patterns EXCEPT !.doi_pattern = patterns.pmid_pattern]
  /\ UNCHANGED <<raw_text, separator, include_raw, method, abstract_texts, i,
                 records, parsed, serialized, restored, calls, componentVars>>

\* the loop is over: return records
ReturnRecords ==
  /\ pc = "loop"
  /\ i > Len(abstract_texts)
  /\ pc' = "returned"
  /\ UNCHANGED <<raw_text, separator, include_raw, method, abstract_texts, i,
                 records, parsed, serialized, restored, patterns, calls, componentVars>>

\* the next returned record is written with to_json and rebuilt from the
\* document read back, as export_to_json and import_from_json do
SerializeRecord ==
  /\ pc = "returned"
  /\ Len(serialized) < Len(records)
  /\ LET document == to_json(records[Len(serialized) + 1])
     IN /\ serialized' = Append(serialized, document)
        /\ restored' =
             Append(restored, AbstractRecordFromDict(json_loads(document)))
  /\ UNCHANGED <<raw_text, separator, include_raw, method, pc, abstract_texts, i,
                 records, parsed, patterns, calls, componentVars>>

Next ==
  \/ ParseAbstract
  \/ ParseMultipleAbstracts
  \/ ParseNextBlock
  \/ ReturnRecords
  \/ SerializeRecord

Spec == Init /\ [][Next]_vars


\* ------------------------------------------- texts made of citation blocks
\* A well-formed citation block: a numbered citation head, a title, the
\* author lines, optionally the author information, an abstract paragraph
\* and the identifier lines, with an empty line between the parts.
BlockOf(head, title, authors, info, body, ids) ==
  LET Part(p) == IF p = <<>> THEN <<>> ELSE <<"">> \o p
  IN <<head>> \o Part(title) \o Part(authors) \o Part(info) \o Part(body)
     \o Part(ids)

Heads == {"HeadA", "HeadB"}
Titles == {<<"Title">>, <<"Title", "Title2">>}
AuthorParts == {<<"Author1">>, <<"AuthorLong", "AuthorCont">>}
InfoParts == {<<>>, <<"AuthInfo", "Affil">>}
Paragraphs == {<<"Prose">>, <<"Prose", "Prose2">>,
               <<"Prose", "NumBody", "Prose2", "Prose">>}
IdParts == {<<"DoiLine", "PmidLine">>}

WellFormedBlocks ==
  {BlockOf(h, t, a, n, b, d) : h \in Heads, t \in Titles, a \in AuthorParts,
                               n \in InfoParts, b \in Paragraphs, d \in IdParts}

\* A block with head, title, author lines and DOI/PMID lines, and no prose
NoProseBlocks ==
  {BlockOf(h, <<"Title2">>, a, <<>>, <<>>, <<"DoiLine", "PmidLine">>) :
     h \in Heads, a \in AuthorParts}

\* the blocks one after the other, two empty lines ("\n\n\n") between them
RECURSIVE JoinBlocks(_)
JoinBlocks(blocks) ==
  IF blocks = <<>> THEN <<>>
  ELSE IF Len(blocks) = 1 THEN blocks[1]
  ELSE blocks[1] \o <<"", "">> \o JoinBlocks(Tail(blocks))

BlockTexts ==
  {JoinBlocks(bs) :
     bs \in UNION {[1..n -> WellFormedBlocks \cup NoProseBlocks] : n \in 1..MaxBlocks}}

InitBlocks ==
  /\ InitWith(BlockTexts)
  /\ separator = DefaultSeparator

SpecBlocks == InitBlocks /\ [][Next]_vars

\* ------------------------------------------- one block, part by part
\* The texts on which the field extractors are exercised: one citation block
\* whose title, author run, author information, paragraphs and identifier
\* lines each vary, absent included.
FieldHeads == {<<"HeadA">>, <<"HeadB">>, <<"HeadB", "Epub">>}
FieldTitles == {<<>>, <<"Title">>, <<"Title", "Title2">>, <<"Tiny">>,
                <<"Title", "Prose">>}
FieldAuthors == {<<>>, <<"Author1">>, <<"AuthorLong", "AuthorCont">>,
                 <<"AuthorLong", "AuthorLong">>, <<"Author1", "Affil">>,
                 <<"Author1", "AuthorCont">>}
FieldInfos == {<<>>, <<"AuthInfo", "Affil">>}
FieldParagraphs == {<<>>, <<"Prose">>, <<"Prose", "Prose2">>,
                    <<"Prose", "Copyright">>, <<"Prose", "PmidLine", "Prose2">>,
                    <<"Copyright", "Prose">>, <<"ProseRef">>}
FieldIds == {<<>>, <<"DoiLine", "PmidLine">>, <<"PmcidLine">>,
             <<"DoiEmpty", "PmidLine">>}

FieldTexts ==
  {BlockOf(h[1], SubSeq(h, 2, Len(h)) \o t, a, n, b, d) :
     h \in FieldHeads, t \in FieldTitles, a \in FieldAuthors,
     n \in FieldInfos, b \in FieldParagraphs, d \in FieldIds}

SpecFields == InitWith(FieldTexts) /\ [][Next]_vars

\* ------------------------------------------- several calls on one instance
\* the texts of the calls
CallTexts ==
  {<<>>, <<" ">>, <<"Title", "", "", "Prose">>,
   <<"HeadA", "Title", "Prose", "DoiLine", "PmidLine">>,
   <<"HeadB", "Title", "Author1", "Prose", "PmcidLine">>,
   <<"HeadA", "HeadB", "Title", "Prose", "PmidLine">>}

\* the caller, who holds the instance, calls it again once a call has ended
CallAgain ==
  /\ pc \in {"returned", "raised"}
  /\ calls < MaxCalls
  /\ calls' = calls + 1
  /\ raw_text' \in CallTexts
  /\ method' \in {"parse_abstract", "parse_multiple_abstracts"}
  /\ separator' \in IF method' = "parse_abstract" THEN {DefaultSeparator}
                    ELSE Separators
  /\ include_raw' \in BOOLEAN
  /\ pc' = "call"
  /\ abstract_texts' = <<>>
  /\ i' = 1
  /\ records' = <<>>
  /\ parsed' = <<>>
  /\ serialized' = <<>>
  /\ restored' = <<>>
  /\ UNCHANGED <<patterns, componentVars>>

NextCalls == Next \/ CallAgain

SpecCalls == InitWith(CallTexts) /\ [][NextCalls]_vars

\* the citation blocks of a text: it is cut before every numbered citation head
IsHead(line) == ~IsBlank(line) /\ Line[line].cite

HeadPositions(text) == {k \in 1..Len(text) : IsHead(text[k])}

RECURSIVE CutAt(_, _, _)
CutAt(text, start, k) ==
  IF k > Len(text) THEN <<Strip(SubSeq(text, start, Len(text)))>>
  ELSE IF IsHead(text[k])
       THEN <<Strip(SubSeq(text, start, k - 1))>> \o CutAt(text, k, k + 1)
       ELSE CutAt(text, start, k + 1)

HeadBlocks(text) == IF text = <<>> THEN <<>> ELSE CutAt(text, 1, 2)

\* ------------------------------------------------ the calls as functions
\* the records the loop of parse_multiple_abstracts collects from the pieces
RECURSIVE CollectRecords(_, _)
CollectRecords(pieces, with_raw) ==
  IF pieces = <<>> THEN <<>>
  ELSE LET record == parse_single_abstract(Strip(Head(pieces)), with_raw)
       IN (IF record = None THEN <<>> ELSE <<record[1]>>)
          \o CollectRecords(Tail(pieces), with_raw)

\* the result of parse_multiple_abstracts with a separator of n >= 1 newlines
parse_multiple_abstracts(text, n, with_raw) ==
  IF IsEmptyText(text) THEN <<>>
  ELSE IF CitationCount(text) > 1
       THEN CollectRecords(CitationSplit(text), with_raw)
       ELSE CollectRecords(SeparatorSplit(text, n), with_raw)

\* the result of parse_abstract
parse_abstract(text, with_raw) ==
  IF IsEmptyText(text) THEN <<>>
  ELSE IF CitationCount(text) > 1
       THEN parse_multiple_abstracts(text, DefaultSeparator, with_raw)
       ELSE LET record == parse_single_abstract(text, with_raw)
            IN IF record = None THEN <<>> ELSE <<record[1]>>

\* ================================================================ properties
NonEmptyText(lines) ==
  lines # <<>> /\ \A k \in 1..Len(lines) : ~IsBlank(lines[k])

\* the content lines of the blocks, one block after the other
RECURSIVE ConcatContent(_)
ConcatContent(blocks) ==
  IF blocks = <<>> THEN <<>>
  ELSE ContentLines(Head(blocks)) \o ConcatContent(Tail(blocks))

\* the positions in the text at which the pieces begin, the first being at
RECURSIVE PieceStarts(_, _)
PieceStarts(pieces, at) ==
  IF pieces = <<>> THEN {}
  ELSE {at} \cup PieceStarts(Tail(pieces), at + Len(Head(pieces)))

\* the title part of a well-formed block: the content lines between its head
\* and its first author line
TitleOf(block) ==
  LET cl == ContentLines(block)
      a == FirstIndex({k \in 1..Len(cl) : AuthorShaped(cl[k])}, 1)
  IN SubSeq(cl, 2, a - 1)

\* the value of the first labelled 'DOI:' line after the head of a block
LabelledDoi(block) ==
  LET cl == ContentLines(block)
      Labelled(l) == StartsWith(l, {"DOI:"}) /\ Line[l].doi # None
      d == FirstIndex({k \in 1..Len(cl) : Labelled(cl[k])}, 2)
  IN IF d = 0 THEN None ELSE Some(RStripDot(Line[cl[d]].doi[1]))

\* the result of the call made on the text
ResultOn(text) ==
  IF method = "parse_abstract" THEN parse_abstract(text, include_raw)
  ELSE parse_multiple_abstracts(text, separator, include_raw)

\* the text without its blocks that have no prose paragraph
WithoutNoProseBlocks(text) ==
  JoinBlocks(SelectSeq(HeadBlocks(text), LAMBDA b : b \notin NoProseBlocks))

\* C1: every record returned by parse_abstract or parse_multiple_abstracts
\* has a non-empty title and a non-empty abstract_text, and a block that
\* lacks either yields no record: there are as many records as blocks the
\* extractors found both in.
C1_RecordsValid ==
  /\ \A k \in 1..Len(records) :
       NonEmptyText(records[k].title) /\ NonEmptyText(records[k].abstract_text)
  /\ pc = "returned" =>
       Len(records) = Cardinality({k \in 1..Len(parsed) :
                                     /\ extract_title(parsed[k]) # None
                                     /\ extract_abstract_text(parsed[k]) # <<>>})

\* a call returned a record and rejected another block
C1_Witness ==
  pc = "returned" /\ Len(records) >= 1 /\ Len(parsed) > Len(records)

\* C2: a text of N well-formed citation blocks yields exactly N records, in
\* input order, the k-th record carrying the title and the head year of the
\* k-th block.
C2_OneRecordPerBlock ==
  LET blocks == HeadBlocks(raw_text)
  IN (pc = "returned" /\ \A k \in 1..Len(blocks) : blocks[k] \in WellFormedBlocks)
     => /\ Len(records) = Len(blocks)
        /\ \A k \in 1..Len(blocks) :
             /\ records[k].title = TitleOf(blocks[k])
             /\ records[k].year = Line[blocks[k][1]].year4

\* C3: the year of a record is absent or lies within MinYear..MaxYear.
C3_YearInRange ==
  \A k \in 1..Len(records) :
    \/ records[k].year = None
    \/ records[k].year[1] \in MinYear..MaxYear

\* C4: when the head of a block carries an inline DOI and a later line is a
\* labelled 'DOI:' line with another value, the record's doi is the labelled
\* one; the head's DOI is the record's doi when there is no labelled line.
C4_LabelledDoiWins ==
  \A k \in 1..Len(records) :
    records[k].raw_text # None =>
      LET block == records[k].raw_text[1]
          head == extract_journal_info(block).doi
          labelled == LabelledDoi(block)
      IN /\ (head # None /\ labelled # None /\ head # labelled)
              => records[k].doi = labelled
         /\ (head # None /\ labelled = None) => records[k].doi = head

\* C5: a block with a head, a title, author lines and identifier lines but no
\* prose paragraph produces no record and leaves the records of its sibling
\* blocks as they are: the call returns what it returns on the siblings alone.
C5_NoProseNoRecord ==
  pc = "returned" => records = ResultOn(WithoutNoProseBlocks(raw_text))

\* C6: a call never ends in an exception: a failure inside one block is
\* confined to that block and the call still returns its list.
C6_NeverRaises ==
  pc # "raised"

\* C7: when the text holds two or more numbered citation heads, the pieces it
\* is split into begin at the start of the text and at the citation heads,
\* and nowhere else.
C7_SplitAtHeadsOnly ==
  (pc \in {"loop", "returned"} /\ CitationCount(raw_text) >= 2)
    => PieceStarts(abstract_texts, 1) = {1} \cup HeadPositions(raw_text)

\* the positions of the content lines of a text
ContentPositions(text) == {k \in 1..Len(text) : ~IsBlank(text[k])}

\* a run of n newlines lies between the lines p < q of the text: n - 1
\* consecutive empty lines lie strictly between them
SeparatedBy(text, p, q, n) ==
  \E j \in (p + 1)..q :
    /\ j + n - 2 < q
    /\ \A m \in j..(j + n - 2) : text[m] = ""

\* the content lines that begin a block: the first one, and every one that a
\* run of n newlines separates from the content line before it
BlockStarts(text, n) ==
  LET cp == ContentPositions(text)
  IN {q \in cp : \A p \in cp :
        (p < q /\ \A m \in (p + 1)..(q - 1) : m \notin cp)
          => SeparatedBy(text, p, q, n)}

\* the blocks of a text whose separator is n >= 1 newlines, each from its
\* first content line to its last
ExpectedBlocks(text, n) ==
  LET cp == ContentPositions(text)
      starts == BlockStarts(text, n)
      StartOf(k) == CHOOSE s \in starts : Cardinality({t \in starts : t <= s}) = k
      EndOf(s) == CHOOSE e \in cp :
                    /\ e >= s
                    /\ \A t \in starts : t > s => e < t
                    /\ \A c \in cp : (c > e) => \E t \in starts : t > s /\ t <= c
  IN [k \in 1..Cardinality(starts) |-> SubSeq(text, StartOf(k), EndOf(StartOf(k)))]

StripAll(blocks) == [k \in 1..Len(blocks) |-> Strip(blocks[k])]

\* a call on a non-empty text with at most one numbered citation head returned
SeparatorCase ==
  /\ pc = "returned"
  /\ ~IsEmptyText(raw_text)
  /\ CitationCount(raw_text) <= 1
  /\ separator >= 1

C9_NothingDiscarded ==
  pc \in {"returned", "raised"} => ConcatContent(parsed) = ContentLines(raw_text)

\* a text with no content line: the absent text, "" or white space only
BlankText(text) == \A k \in 1..Len(text) : IsBlank(text[k])

\* C10: on an empty, absent or whitespace-only text a call returns the empty
\* list, hands nothing to the per-block parser and does not raise.
C10_EmptyInput ==
  (BlankText(raw_text) /\ pc # "call")
    => (pc = "returned" /\ records = <<>> /\ parsed = <<>>)

\* parse_multiple_abstracts returned on a whitespace-only text, the separator
\* being the empty string
C10_Witness ==
  /\ pc = "returned"
  /\ raw_text # <<>>
  /\ BlankText(raw_text)
  /\ method = "parse_multiple_abstracts"
  /\ separator = 0
  /\ records = <<>>

\* the blocks the per-block parser accepted: a title and an abstract were found
Accepted(block) ==
  extract_title(block) # None /\ extract_abstract_text(block) # <<>>

\* C11: without include_raw no record carries a raw text; with include_raw
\* the raw text of every record is the block the record was parsed from (its
\* title and abstract are those of that block), and the raw texts of the
\* returned records are, in order, the accepted blocks.
C11_RawTextIsBlock ==
  /\ \A k \in 1..Len(records) :
       IF include_raw
       THEN /\ records[k].raw_text # None
            /\ \E b \in 1..Len(parsed) : parsed[b] = records[k].raw_text[1]
            /\ Some(records[k].title) = extract_title(records[k].raw_text[1])
            /\ records[k].abstract_text
                 = extract_abstract_text(records[k].raw_text[1])
       ELSE records[k].raw_text = None
  /\ (pc = "returned" /\ include_raw)
       => [k \in 1..Len(records) |-> records[k].raw_text[1]]
            = SelectSeq(parsed, Accepted)

\* a call with include_raw split the text in several blocks and returned the
\* record of a later block: its raw text is that block, not the whole input
C11_Witness ==
  /\ pc = "returned"
  /\ include_raw
  /\ Len(parsed) >= 2
  /\ Len(records) = 1
  /\ records[1].raw_text = Some(parsed[2])
  /\ parsed[2] # raw_text

RECURSIVE InIsolation(_, _)
InIsolation(blocks, with_raw) ==
  IF blocks = <<>> THEN <<>>
  ELSE LET block == Strip(Head(blocks))
           title == extract_title(block)
           body == extract_abstract_text(block)
           info == extract_journal_info(block)
           ids == extract_identifiers(block)
       IN (IF block = <<>> \/ title = None \/ body = <<>> THEN <<>>
           ELSE <<[title |-> title[1], authors |-> extract_authors(block),
                   year |-> info.year, abstract_text |-> body,
                   journal |-> info.journal,
                   doi |-> IF Falsy(ids.doi) THEN info.doi ELSE ids.doi,
                   pmid |-> ids.pmid, pmcid |-> ids.pmcid,
                   raw_text |-> IF with_raw THEN Some(block) ELSE None]>>)
          \o InIsolation(Tail(blocks), with_raw)

C14_InstanceUnchanged ==
  /\ patterns = PatternTable
  /\ pc = "returned" => records = ResultOn(raw_text)
  /\ \A k \in 1..Len(records) :
       records[k].raw_text # None =>
         /\ records[k].pmid = FirstMatch(records[k].raw_text[1], "pmid")
         /\ records[k].pmcid = FirstMatch(records[k].raw_text[1], "pmcid")

\* a second call on the instance returned a record with an identifier
C14_Witness ==
  /\ calls = 2
  /\ pc = "returned"
  /\ records # <<>>
  /\ records[1].pmid # None

\* ------------------------------------------------------------------ C15
\* the comma-separated entries of the author run of a block, the '(n)'
\* markers removed
RunEntries(block) ==
  LET run == AuthorLines(ContentLines(block))
  IN IF run = <<>> THEN <<>> ELSE SplitNames(run)

\* the entries with at least two words and no digit, in their order
KeptNames(entries) ==
  LET kept == SelectSeq(entries,
                        LAMBDA e : e.s # "" /\ e.words >= 2 /\ ~e.digit)
  IN [k \in 1..Len(kept) |-> kept[k].s]

IdentifierLabels == {"doi", "pmid", "pmcid"}

\* the line holds an occurrence of the label
HoldsLabel(line, label) ==
  /\ ~IsBlank(line)
  /\ \/ Line[line][label] # None
     \/ line \in DOMAIN OpenLabel /\ label \in OpenLabel[line]

\* a line of the other two labels: it holds one of them and not this one
OfOtherLabels(line, label) ==
  /\ ~HoldsLabel(line, label)
  /\ \E other \in IdentifierLabels \ {label} : HoldsLabel(line, other)

OtherLabelLines(label) == {line \in SampleLines : OfOtherLabels(line, label)}

\* the texts a block becomes when lines of the other two labels are removed,
\* emptied or altered, or when one is added
Variants(block, label) ==
  {SelectSeq(block, LAMBDA line : ~OfOtherLabels(line, label))}
  \cup {[k \in 1..Len(block) |->
           IF OfOtherLabels(block[k], label) THEN "" ELSE block[k]]}
  \cup {[k \in 1..Len(block) |->
           IF OfOtherLabels(block[k], label) THEN line ELSE block[k]] :
         line \in OtherLabelLines(label)}
  \cup {SubSeq(block, 1, p) \o <<line>> \o SubSeq(block, p + 1, Len(block)) :
         p \in 0..Len(block), line \in OtherLabelLines(label)}

\* C16: each of DOI, PMID and PMCID that extract_identifiers returns depends
\* only on the occurrences of its own label: it is the same on every block
\* handed to the parser, accepted or not, when lines of the other two labels
\* are added, removed, emptied or altered.
C16_OwnLabelOnly ==
  \A k \in 1..Len(parsed) : \A label \in IdentifierLabels :
    \A variant \in Variants(parsed[k], label) :
      extract_identifiers(variant)[label] = extract_identifiers(parsed[k])[label]

\* ------------------------------------------------------------------ C17
\* the positions of the lines that can make the title: not the head, not an
\* epub/DOI metadata line, and qualifying
TitlePositions(lines) ==
  {k \in 1..Len(lines) : ~TitleSkipped(k, lines[k]) /\ TitleQualifies(lines[k])}

\* the first run of consecutive qualifying lines
FirstTitleRun(lines) ==
  LET start == FirstIndex(TitlePositions(lines), 1)
      stop == FirstIndex((1..Len(lines) + 1) \ TitlePositions(lines), start)
  IN IF start = 0 THEN <<>> ELSE SubSeq(lines, start, stop - 1)

\* the position where the author section opens, 0 when there is none
AuthorSectionAt(lines) ==
  FirstIndex({k \in 1..Len(lines) : AuthorSectionStart(lines[k])}, 1)

\* C17: the title is exactly the first run of consecutive qualifying lines
\* after the head and the epub/DOI metadata lines: no line after the end of
\* that run is added to it, and no line after the author section is used as
\* the title.
C17_TitleIsFirstRun ==
  \A k \in 1..Len(parsed) :
    LET lines == ContentLines(parsed[k])
        run == FirstTitleRun(lines)
        title == extract_title(parsed[k])
    IN /\ title = IF run = <<>> THEN None ELSE Some(run)
       /\ (title # None /\ AuthorSectionAt(lines) # 0)
            => FirstIndex(TitlePositions(lines), 1) < AuthorSectionAt(lines)

\* ------------------------------------------------------------------ C18
\* C18: when a block has author-shaped lines, its abstract begins strictly
\* after the last of them, and after 'Author information:' when present: no
\* author-shaped line is part of the abstract_text of a block or of a record.
C18_AbstractAfterAuthors ==
  /\ \A k \in 1..Len(parsed) :
       LET lines == ContentLines(parsed[k])
           abstract_text == extract_abstract_text(parsed[k])
       IN (abstract_text # <<>> /\ \E n \in 1..Len(lines) : AuthorShaped(lines[n]))
            => /\ \A n \in 1..Len(abstract_text) : ~AuthorShaped(abstract_text[n])
               /\ \A n \in 1..Len(lines) :
                    (AuthorShaped(lines[n]) \/ IsAuthorInformation(lines[n]))
                      => n < AbstractStart(lines)
  /\ \A k \in 1..Len(records) :
       \A n \in 1..Len(records[k].abstract_text) :
         ~AuthorShaped(records[k].abstract_text[n])

\* ------------------------------------------------------------------ C19
\* the labels that end the abstract
EndLabels == {"DOI:", "PMID:", "PMCID:", "Copyright"}

\* C19: abstract_text is the join of the block's non-empty lines from the
\* abstract start up to, not including, the first later line that begins
\* with 'DOI:', 'PMID:', 'PMCID:' or 'Copyright' (up to the end of the block
\* when there is none), and no line of it begins with one of these labels.
C19_EndsAtFirstLaterLabel ==
  /\ \A k \in 1..Len(parsed) :
       LET lines == ContentLines(parsed[k])
           start == AbstractStart(lines)
           later == FirstIndex({n \in 1..Len(lines) :
                                 Line[lines[n]].pre \in EndLabels}, start + 1)
           end == IF later = 0 THEN Len(lines) + 1 ELSE later
       IN start # 0 =>
            extract_abstract_text(parsed[k]) = SubSeq(lines, start, end - 1)
  /\ \A k \in 1..Len(parsed) :
       LET abstract_text == extract_abstract_text(parsed[k])
       IN \A n \in 1..Len(abstract_text) :
            Line[abstract_text[n]].pre \notin EndLabels
  /\ \A k \in 1..Len(records) :
       \A n \in 1..Len(records[k].abstract_text) :
         Line[records[k].abstract_text[n]].pre \notin EndLabels

\* ------------------------------------------------------------------ C20
\* a block with a line that qualifies as title, after it a paragraph (a line
\* that can open the abstract and does not begin with a label that ends it),
\* and no author-shaped line
TitleAndParagraphOnly(block) ==
  LET lines == ContentLines(block)
      title == FirstIndex(TitlePositions(lines), 1)
  IN /\ title # 0
     /\ \E n \in (title + 1)..Len(lines) :
          AbstractStartsAt(lines[n]) /\ Line[lines[n]].pre \notin EndLabels
     /\ \A n \in 1..Len(lines) : ~AuthorShaped(lines[n])

\* C20: a block with a qualifying title and an abstract paragraph and no
\* author-shaped line is accepted: it yields a record, whose authors are
\* empty; the absence of authors does not make the parser reject a block.
C20_AcceptedWithoutAuthors ==
  /\ \A k \in 1..Len(parsed) :
       TitleAndParagraphOnly(parsed[k]) =>
         /\ parse_single_abstract(parsed[k], include_raw) # None
         /\ parse_single_abstract(parsed[k], include_raw)[1].authors = <<>>
  /\ (pc = "returned" /\ include_raw) =>
       \A k \in 1..Len(parsed) :
         TitleAndParagraphOnly(parsed[k]) =>
           \E n \in 1..Len(records) :
             /\ records[n].raw_text = Some(parsed[k])
             /\ records[n].authors = <<>>

\* ================================================================ data_store
\* ------------------------------------------------------------- sample data
MaxOps == 4

\* f"gap_{self._next_gap_id:06d}"
AutoId ==
  <<"gap_000001", "gap_000002", "gap_000003", "gap_000004", "gap_000005",
    "gap_000006", "gap_000007", "gap_000008", "gap_000009">>

\* the explicit ids a caller passes to add_gap, one of them of the form of
\* the generated ids
ExplicitIds == {"custom", "gap_000001"}

\* a ResearchGap: keywords, confidence and created_at take no part in the
\* ids and the indexes and are left out
ResearchGap(gap_id, abstract_id, gap_text, topic, year) ==
  [gap_id |-> gap_id, abstract_id |-> abstract_id, gap_text |-> gap_text,
   topic |-> topic, year |-> year]

SampleGaps ==
  {ResearchGap("", "abs_1", "g1", Some("ai"), Some(2019)),
   ResearchGap("", "abs_2", "g2", Some("ml"), Some(2020)),
   ResearchGap("", "abs_1", "g3", None, None)}

GapYears == {2019, 2020}
GapTopics == {"ai", "ml"}
GapAbstractIds == {"abs_1", "abs_2"}

\* three distinct abstract records, two of them with the same title
SampleAbstracts ==
  {AbstractRecord(<<"Title">>, <<>>, Some(2019), <<"Prose">>, None, None, None,
                  None, None),
   AbstractRecord(<<"Title">>, <<>>, Some(2020), <<"Prose2">>, None, None, None,
                  None, None),
   AbstractRecord(<<"Title2">>, <<>>, Some(2020), <<"Prose">>, None, None, None,
                  None, None)}

\* "abs_" + hashlib.md5(abstract.title.encode()).hexdigest()[:8]
TitleHash ==
  <<"Title">> :> "abs_085a1f8f" @@ <<"Title2">> :> "abs_e90b9ca3"

\* ------------------------------------------------------------- dictionaries
\* d[key] = value
Put(d, key, value) == (key :> value) @@ d

\* d.get(key, set())
IndexGet(index, key) == IF key \in DOMAIN index THEN index[key] ELSE {}

\* index[key].add(gap_id) on a defaultdict(set)
IndexAdd(index, key, gap_id) == Put(index, key, IndexGet(index, key) \cup {gap_id})

\* ------------------------------------------------------- InMemoryDataStore
\* the store after __init__
NewStore ==
  [_abstracts |-> <<>>, _gaps |-> <<>>, _lock |-> None, _next_gap_id |-> 1,
   _gaps_by_year |-> <<>>, _gaps_by_topic |-> <<>>, _gaps_by_abstract |-> <<>>]

\* add_abstract: the store afterwards and the id returned
add_abstract(store, abstract, abstract_id) ==
  LET id == IF abstract_id = None THEN TitleHash[abstract.title]
            ELSE abstract_id[1]
  IN [store |-> [store EXCEPT !._abstracts = Put(@, id, abstract)],
      result |-> id]

\* add_gap: the store afterwards and the id returned
add_gap(store, gap, gap_id) ==
  LET id == IF gap_id = None THEN AutoId[store._next_gap_id] ELSE gap_id[1]
      stored == [gap EXCEPT !.gap_id = id]
  IN [store |->
        [store EXCEPT
           !._next_gap_id = IF gap_id = None THEN @ + 1 ELSE @,
           !._gaps = Put(@, id, stored),
           !._gaps_by_year =
              IF gap.year = None THEN @ ELSE IndexAdd(@, gap.year[1], id),
           !._gaps_by_topic =
              IF Falsy(gap.topic) THEN @ ELSE IndexAdd(@, gap.topic[1], id),
           !._gaps_by_abstract =
              IF gap.abstract_id = "" THEN @
              ELSE IndexAdd(@, gap.abstract_id, id)],
      result |-> id]

get_abstract(store, abstract_id) ==
  IF abstract_id \in DOMAIN store._abstracts
  THEN Some(store._abstracts[abstract_id]) ELSE None

\* [self._gaps[gap_id] for gap_id in gap_ids if gap_id in self._gaps]
GapsOf(store, gap_ids) ==
  {store._gaps[gap_id] : gap_id \in gap_ids \cap DOMAIN store._gaps}

get_gaps_by_year(store, year) == GapsOf(store, IndexGet(store._gaps_by_year, year))

get_gaps_by_topic(store, topic) ==
  GapsOf(store, IndexGet(store._gaps_by_topic, topic))

get_gaps_by_abstract(store, abstract_id) ==
  GapsOf(store, IndexGet(store._gaps_by_abstract, abstract_id))

get_statistics(store) ==
  [total_abstracts |-> Cardinality(DOMAIN store._abstracts),
   total_gaps |-> Cardinality(DOMAIN store._gaps)]

clear(store) ==
  [store EXCEPT !._abstracts = <<>>, !._gaps = <<>>, !._gaps_by_year = <<>>,
                !._gaps_by_topic = <<>>, !._gaps_by_abstract = <<>>,
                !._next_gap_id = 1]

\* ------------------------------------------------- ResearchGap to_dict, from_dict
GapFieldNames == {"gap_id", "abstract_id", "gap_text", "topic", "year"}

GapOptionalFields == {"topic", "year"}

\* the Python value of a field of a gap, with its type
GapPyValue(gap, field) ==
  IF field \in GapOptionalFields /\ gap[field] = None
  THEN [type |-> "NoneType", v |-> None]
  ELSE [type |-> IF field = "year" THEN "int" ELSE "str",
        v |-> IF field \in GapOptionalFields THEN gap[field][1] ELSE gap[field]]

ResearchGap_to_dict(gap) == [field \in GapFieldNames |-> GapPyValue(gap, field)]

GapFieldValue(data, field) ==
  IF field \in GapOptionalFields
  THEN IF data[field].type = "NoneType" THEN None ELSE Some(data[field].v)
  ELSE data[field].v

ResearchGap_from_dict(data) ==
  ResearchGap(GapFieldValue(data, "gap_id"), GapFieldValue(data, "abstract_id"),
              GapFieldValue(data, "gap_text"), GapFieldValue(data, "topic"),
              GapFieldValue(data, "year"))

\* ------------------------------------------- export_to_json, import_from_json
\* json.dump of a dictionary of to_dict dictionaries, member by member
JsonOfDict(d) == [key \in DOMAIN d |-> JsonOf(d[key])]

\* the content of the file that export_to_json writes
export_to_json(store) ==
  [abstracts |-> [aid \in DOMAIN store._abstracts |->
                    to_json(store._abstracts[aid])],
   gaps |-> [gid \in DOMAIN store._gaps |->
               JsonOfDict(ResearchGap_to_dict(store._gaps[gid]))],
   metadata |-> [next_gap_id |-> store._next_gap_id]]

\* the index that the loop over the imported gaps builds on a field
RebuiltIndex(gaps, keys, field) ==
  LET Key(gid) == IF field = "abstract_id" THEN Some(gaps[gid][field])
                  ELSE gaps[gid][field]
      used == {key \in keys : \E gid \in DOMAIN gaps : Key(gid) = Some(key)}
  IN [key \in used |-> {gid \in DOMAIN gaps : Key(gid) = Some(key)}]

\* the store after import_from_json of a file with this content
import_from_json(store, data) ==
  LET abstracts == [aid \in DOMAIN data.abstracts |->
                      AbstractRecordFromDict(json_loads(data.abstracts[aid]))]
      gaps == [gid \in DOMAIN data.gaps |->
                 ResearchGap_from_dict(json_loads(data.gaps[gid]))]
  IN [clear(store) EXCEPT
        !._abstracts = abstracts,
        !._gaps = gaps,
        !._gaps_by_year = RebuiltIndex(gaps, GapYears, "year"),
        !._gaps_by_topic = RebuiltIndex(gaps, GapTopics, "topic"),
        !._gaps_by_abstract = RebuiltIndex(gaps, GapAbstractIds, "abstract_id"),
        !._next_gap_id = data.metadata.next_gap_id]

\* ------------------------------------------------- one caller, two stores
\* the store that is filled and exported, and a second one that imports
StoreNames == {"source", "target"}

\* the calls a caller makes on the second store before it imports
TargetGaps == {ResearchGap("", "abs_1", "g3", None, None)}

\* what the caller notes of a call: the store, the operation, its argument
\* (for an export the store as it was exported), the id passed, what the call
\* returned, and whether the returned id was a key of the store before
Call(name, op, arg, id, result, existed) ==
  [store |-> name, op |-> op, arg |-> arg, id |-> id, result |-> result,
   existed |-> existed]

Log == threads.main.log

Logged(call) ==
  /\ threads' = [threads EXCEPT !.main.log = Append(@, call)]
  /\ calls' = calls + 1

\* the parser is not in use
ParserIdle ==
  /\ raw_text = <<>>
  /\ separator = DefaultSeparator
  /\ include_raw = FALSE
  /\ method = "parse_abstract"
  /\ pc = "returned"
  /\ abstract_texts = <<>>
  /\ i = 1
  /\ records = <<>>
  /\ parsed = <<>>
  /\ serialized = <<>>
  /\ restored = <<>>
  /\ patterns = PatternTable

InitStore ==
  /\ ParserIdle
  /\ calls = 0
  /\ stores = [name \in StoreNames |-> NewStore]
  /\ file = None
  /\ threads = [main |-> [log |-> <<>>]]
  /\ globals = <<>>
  /\ papers = <<>>
  /\ pipeline = <<>>

AddGap ==
  /\ calls < MaxOps
  /\ \E name \in StoreNames :
       \E gap \in IF name = "source" THEN SampleGaps ELSE TargetGaps :
         \E gap_id \in IF name = "source"
                       THEN {None} \cup {Some(id) : id \in ExplicitIds}
                       ELSE {None} :
           LET out == add_gap(stores[name], gap, gap_id)
           IN /\ stores' = [stores EXCEPT ![name] = out.store]
              /\ Logged(Call(name, "add_gap", gap, gap_id, out.result,
                             out.result \in DOMAIN stores[name]._gaps))
  /\ UNCHANGED <<parserVars, file, globals, papers, pipeline>>

AddAbstract ==
  /\ calls < MaxOps
  /\ \E abstract \in SampleAbstracts :
       LET out == add_abstract(stores.source, abstract, None)
       IN /\ stores' = [stores EXCEPT !.source = out.store]
          /\ Logged(Call("source", "add_abstract", abstract, None, out.result,
                         out.result \in DOMAIN stores.source._abstracts))
  /\ UNCHANGED <<parserVars, file, globals, papers, pipeline>>

Clear ==
  /\ calls < MaxOps
  /\ stores' = [stores EXCEPT !.source = clear(@)]
  /\ Logged(Call("source", "clear", None, None, None, FALSE))
  /\ UNCHANGED <<parserVars, file, globals, papers, pipeline>>

ExportToJson ==
  /\ calls < MaxOps
  /\ file' = Some(export_to_json(stores.source))
  /\ Logged(Call("source", "export_to_json", stores.source, None, None, FALSE))
  /\ UNCHANGED <<parserVars, stores, globals, papers, pipeline>>

ImportFromJson ==
  /\ calls < MaxOps
  /\ file # None
  /\ \E name \in StoreNames :
       /\ stores' = [stores EXCEPT ![name] = import_from_json(@, file[1])]
       /\ Logged(Call(name, "import_from_json", None, None, None, FALSE))
  /\ UNCHANGED <<parserVars, file, globals, papers, pipeline>>

NextStore ==
  \/ AddGap
  \/ AddAbstract
  \/ Clear
  \/ ExportToJson
  \/ ImportFromJson

SpecStore == InitStore /\ [][NextStore]_vars

\* ------------------------------------------ several threads, one shared store
Threads == {"t1", "t2"}

\* what the threads add
ThreadGaps ==
  {ResearchGap("", "abs_1", "g1", Some("ai"), Some(2019)),
   ResearchGap("", "abs_2", "g3", None, None)}

ThreadAbstracts ==
  {AbstractRecord(<<"Title">>, <<>>, Some(2019), <<"Prose">>, None, None, None,
                  None, None)}

\* the calls a thread makes: the method and its argument
ThreadCalls ==
  ({"add_gap"} \X ThreadGaps) \cup ({"add_abstract"} \X ThreadAbstracts)
    \cup {<<"get_statistics", None>>}

\* the first statement of each method inside "with self._lock"
FirstStatement ==
  [add_gap |-> "format", add_abstract |-> "put_abstract", get_statistics |-> "read"]

\* a thread that is not inside a call
IdleThread ==
  [pc |-> "idle", op |-> "", arg |-> None, gap_id |-> "", loaded |-> 0,
   result |-> None, existed |-> FALSE, log |-> <<>>]

InitThreads ==
  /\ ParserIdle
  /\ calls = 0
  /\ stores = [shared |-> NewStore]
  /\ file = None
  /\ threads = [t \in Threads |-> IdleThread]
  /\ globals = <<>>
  /\ papers = <<>>
  /\ pipeline = <<>>

\* a thread calls a method of the shared store
Begin(t) ==
  /\ threads[t].pc = "idle"
  /\ calls < MaxOps
  /\ \E call \in ThreadCalls :
       threads' = [threads EXCEPT ![t].pc = "acquire", ![t].op = call[1],
                                  ![t].arg = call[2], ![t].gap_id = "",
                                  ![t].loaded = 0, ![t].result = None,
                                  ![t].existed = FALSE]
  /\ calls' = calls + 1
  /\ UNCHANGED <<parserVars, stores, file, globals, papers, pipeline>>

\* the variant that enters the method without taking the lock
Acquire_without_lock(t) ==
  /\ threads[t].pc = "acquire"
  /\ threads' = [threads EXCEPT ![t].pc = FirstStatement[threads[t].op]]
  /\ UNCHANGED <<parserVars, calls, stores, file, globals, papers, pipeline>>

\* with self._lock: an RLock, free or held by the thread itself
Acquire(t) ==
  /\ threads[t].pc = "acquire"
  /\ stores.shared._lock \in {None, Some(t)}
  /\ stores' = [stores EXCEPT !.shared._lock = Some(t)]
  /\ threads' = [threads EXCEPT ![t].pc = FirstStatement[threads[t].op]]
  /\ UNCHANGED <<parserVars, calls, file, globals, papers, pipeline>>

\* gap_id = f"gap_{self._next_gap_id:06d}"
FormatId(t) ==
  /\ threads[t].pc = "format"
  /\ threads' = [threads EXCEPT ![t].gap_id = AutoId[stores.shared._next_gap_id],
                                ![t].pc = "load"]
  /\ UNCHANGED <<parserVars, calls, stores, file, globals, papers, pipeline>>

\* self._next_gap_id += 1, the read
LoadCounter(t) ==
  /\ threads[t].pc = "load"
  /\ threads' = [threads EXCEPT ![t].loaded = stores.shared._next_gap_id,
                                ![t].pc = "increment"]
  /\ UNCHANGED <<parserVars, calls, stores, file, globals, papers, pipeline>>

\* self._next_gap_id += 1, the write
StoreCounter(t) ==
  /\ threads[t].pc = "increment"
  /\ stores' = [stores EXCEPT !.shared._next_gap_id = threads[t].loaded + 1]
  /\ threads' = [threads EXCEPT ![t].pc = "put"]
  /\ UNCHANGED <<parserVars, calls, file, globals, papers, pipeline>>

\* gap.gap_id = gap_id; self._gaps[gap_id] = gap
PutGap(t) ==
  /\ threads[t].pc = "put"
  /\ stores' = [stores EXCEPT !.shared._gaps =
                  Put(@, threads[t].gap_id,
                      [threads[t].arg EXCEPT !.gap_id = threads[t].gap_id])]
  /\ threads' = [threads EXCEPT
                   ![t].existed = threads[t].gap_id \in DOMAIN stores.shared._gaps,
                   ![t].pc = "index_year"]
  /\ UNCHANGED <<parserVars, calls, file, globals, papers, pipeline>>

\* the three index updates, one statement at a time
AddToIndexes(t) ==
  LET gap == threads[t].arg
      id == threads[t].gap_id
  IN /\ \/ /\ threads[t].pc = "index_year"
           /\ stores' = [stores EXCEPT !.shared._gaps_by_year =
                           IF gap.year = None THEN @
                           ELSE IndexAdd(@, gap.year[1], id)]
           /\ threads' = [threads EXCEPT ![t].pc = "index_topic"]
        \/ /\ threads[t].pc = "index_topic"
           /\ stores' = [stores EXCEPT !.shared._gaps_by_topic =
                           IF Falsy(gap.topic) THEN @
                           ELSE IndexAdd(@, gap.topic[1], id)]
           /\ threads' = [threads EXCEPT ![t].pc = "index_abstract"]
        \/ /\ threads[t].pc = "index_abstract"
           /\ stores' = [stores EXCEPT !.shared._gaps_by_abstract =
                           IF gap.abstract_id = "" THEN @
                           ELSE IndexAdd(@, gap.abstract_id, id)]
           /\ threads' = [threads EXCEPT ![t].pc = "return",
                                         ![t].result = Some(id)]
     /\ UNCHANGED <<parserVars, calls, file, globals, papers, pipeline>>

\* add_abstract without explicit id, inside the lock
PutAbstract(t) ==
  /\ threads[t].pc = "put_abstract"
  /\ LET out == add_abstract(stores.shared, threads[t].arg, None)
     IN /\ stores' = [stores EXCEPT !.shared = out.store]
        /\ threads' = [threads EXCEPT ![t].pc = "return",
                                      ![t].result = Some(out.result)]
  /\ UNCHANGED <<parserVars, calls, file, globals, papers, pipeline>>

\* get_statistics, inside the lock
ReadStatistics(t) ==
  /\ threads[t].pc = "read"
  /\ threads' = [threads EXCEPT ![t].pc = "return",
                                ![t].result = Some(get_statistics(stores.shared))]
  /\ UNCHANGED <<parserVars, calls, stores, file, globals, papers, pipeline>>

\* the end of "with self._lock" and the return
Return(t) ==
  /\ threads[t].pc = "return"
  /\ stores' = [stores EXCEPT !.shared._lock = IF @ = Some(t) THEN None ELSE @]
  /\ threads' = [threads EXCEPT
                   ![t].pc = "idle",
                   ![t].log = Append(@, Call("shared", threads[t].op,
                                             threads[t].arg, None,
                                             threads[t].result[1],
                                             threads[t].existed))]
  /\ UNCHANGED <<parserVars, calls, file, globals, papers, pipeline>>

NextThreads ==
  \E t \in Threads :
    \/ Begin(t)
    \/ Acquire(t)
    \/ FormatId(t)
    \/ LoadCounter(t)
    \/ StoreCounter(t)
    \/ PutGap(t)
    \/ AddToIndexes(t)
    \/ PutAbstract(t)
    \/ ReadStatistics(t)
    \/ Return(t)

SpecThreads == InitThreads /\ [][NextThreads]_vars

\* ------------------------------------------------------------ get_data_store
\* the threads that call get_data_store
Callers == {"t1", "t2", "t3"}

\* a thread that is not inside get_data_store; log holds what its calls returned
IdleCaller == [pc |-> "idle", log |-> <<>>]

\* the module after import: _global_store = None, _store_lock free, and no
\* InMemoryDataStore constructed; stores holds the instances in the order
\* of their construction
InitSingleton ==
  /\ ParserIdle
  /\ calls = 0
  /\ stores = <<>>
  /\ file = None
  /\ threads = [t \in Callers |-> IdleCaller]
  /\ globals = [_global_store |-> None, _store_lock |-> None]
  /\ papers = <<>>
  /\ pipeline = <<>>

CallGetDataStore(t) ==
  /\ threads[t].pc = "idle"
  /\ calls < MaxOps
  /\ calls' = calls + 1
  /\ threads' = [threads EXCEPT ![t].pc = "check"]
  /\ UNCHANGED <<parserVars, stores, file, globals, papers, pipeline>>

\* if _global_store is None, outside the lock
Check(t) ==
  /\ threads[t].pc = "check"
  /\ threads' = [threads EXCEPT ![t].pc =
                   IF globals._global_store = None THEN "lock" ELSE "return"]
  /\ UNCHANGED <<parserVars, calls, stores, file, globals, papers, pipeline>>

\* with _store_lock: a Lock, taken when it is free
AcquireStoreLock(t) ==
  /\ threads[t].pc = "lock"
  /\ globals._store_lock = None
  /\ globals' = [globals EXCEPT !._store_lock = Some(t)]
  /\ threads' = [threads EXCEPT ![t].pc = "check_again"]
  /\ UNCHANGED <<parserVars, calls, stores, file, papers, pipeline>>

\* the variant without the test inside the lock
CheckAgain_always_constructs(t) ==
  /\ threads[t].pc = "check_again"
  /\ threads' = [threads EXCEPT ![t].pc = "construct"]
  /\ UNCHANGED <<parserVars, calls, stores, file, globals, papers, pipeline>>

\* if _global_store is None, inside the lock
CheckAgain(t) ==
  /\ threads[t].pc = "check_again"
  /\ threads' = [threads EXCEPT ![t].pc =
                   IF globals._global_store = None THEN "construct" ELSE "unlock"]
  /\ UNCHANGED <<parserVars, calls, stores, file, globals, papers, pipeline>>

\* _global_store = InMemoryDataStore()
Construct(t) ==
  /\ threads[t].pc = "construct"
  /\ stores' = Append(stores, NewStore)
  /\ globals' = [globals EXCEPT !._global_store = Some(Len(stores) + 1)]
  /\ threads' = [threads EXCEPT ![t].pc = "unlock"]
  /\ UNCHANGED <<parserVars, calls, file, papers, pipeline>>

\* the end of "with _store_lock"
ReleaseStoreLock(t) ==
  /\ threads[t].pc = "unlock"
  /\ globals' = [globals EXCEPT !._store_lock = None]
  /\ threads' = [threads EXCEPT ![t].pc = "return"]
  /\ UNCHANGED <<parserVars, calls, stores, file, papers, pipeline>>

\* return _global_store
ReturnStore(t) ==
  /\ threads[t].pc = "return"
  /\ threads' = [threads EXCEPT ![t].pc = "idle",
                                ![t].log = Append(@, globals._global_store)]
  /\ UNCHANGED <<parserVars, calls, stores, file, globals, papers, pipeline>>

NextSingleton ==
  \E t \in Callers :
    \/ CallGetDataStore(t)
    \/ Check(t)
    \/ AcquireStoreLock(t)
    \/ CheckAgain(t)
    \/ Construct(t)
    \/ ReleaseStoreLock(t)
    \/ ReturnStore(t)

SpecSingleton == InitSingleton /\ [][NextSingleton]_vars

\* ================================================================== database
\* the values passed as doi, and as year
DoiValues == {None, Some(""), Some("10.1/a"), Some("10.1/b")}
YearValues == {None, Some(2023)}

\* f"https://doi.org/{doi}"
DoiLinkOf(doi) == <<"https://doi.org/", doi>>

\* the values passed to update_paper as doi_link
DoiLinkValues == {None, Some(DoiLinkOf("10.1/a")), Some(<<"http://example.org/", "x">>)}

\* ResearchPaper.__init__: doi_link is assigned only for a truthy doi
ResearchPaper(title, year, doi) ==
  [title |-> title, year |-> year, doi |-> doi,
   doi_link |-> IF Falsy(doi) THEN None ELSE Some(DoiLinkOf(doi[1]))]

\* the unique index on the doi column: no two rows with the same non-NULL doi
UniqueDoi(rows) ==
  \A j, k \in DOMAIN rows : (j # k /\ rows[j].doi # None) => rows[j].doi # rows[k].doi

\* the table after create_paper; the commit fails on a duplicate doi
create_paper(rows, title, year, doi) ==
  LET added == Append(rows, ResearchPaper(title, year, doi))
  IN IF UniqueDoi(added) THEN added ELSE rows

\* the **kwargs of update_paper: values for some of the columns
UpdateKwargs ==
  {[key \in keys |-> values[key]] :
     keys \in SUBSET {"doi", "doi_link", "year"},
     values \in [doi : DoiValues, doi_link : DoiLinkValues, year : YearValues]}

\* the row after the setattr loop and the doi_link update
Updated(paper, kwargs) ==
  LET set == [field \in DOMAIN paper |->
                IF field \in DOMAIN kwargs THEN kwargs[field] ELSE paper[field]]
  IN IF "doi" \in DOMAIN kwargs /\ ~Falsy(kwargs["doi"])
     THEN [set EXCEPT !.doi_link = Some(DoiLinkOf(kwargs["doi"][1]))]
     ELSE set

\* the table after update_paper; an unknown id changes nothing, and neither
\* does a commit that fails on a duplicate doi
update_paper(rows, paper_id, kwargs) ==
  IF paper_id \notin DOMAIN rows THEN rows
  ELSE LET changed == [rows EXCEPT ![paper_id] = Updated(@, kwargs)]
       IN IF UniqueDoi(changed) THEN changed ELSE rows

InitPapers ==
  /\ ParserIdle
  /\ calls = 0
  /\ stores = <<>>
  /\ file = None
  /\ threads = <<>>
  /\ globals = <<>>
  /\ papers = <<>>
  /\ pipeline = <<>>

CreatePaper ==
  /\ calls < MaxOps
  /\ calls' = calls + 1
  /\ \E doi \in DoiValues : \E year \in YearValues :
       papers' = create_paper(papers, "Test Paper", year, doi)
  /\ UNCHANGED <<parserVars, stores, file, threads, globals, pipeline>>

UpdatePaper ==
  /\ calls < MaxOps
  /\ calls' = calls + 1
  /\ \E paper_id \in 1 .. Len(papers) + 1 : \E kwargs \in UpdateKwargs :
       papers' = update_paper(papers, paper_id, kwargs)
  /\ UNCHANGED <<parserVars, stores, file, threads, globals, pipeline>>

NextPapers ==
  \/ CreatePaper
  \/ UpdatePaper

SpecPapers == InitPapers /\ [][NextPapers]_vars

\* ==================================================== research_gap_pipeline
\* the steps list of run_full_pipeline
Steps ==
  <<"step1_load_from_s3", "step2_parse_abstracts", "step3_extract_themes",
    "step4_save_results", "step5_create_visualizations">>

\* what the services a step calls can do
Outcomes ==
  [step1_load_from_s3 |-> {"no_connection", "raises", "empty", "done"},
   step2_parse_abstracts |-> {"raises", "empty", "done"},
   step3_extract_themes |-> {"raises", "done"},
   step4_save_results |-> {"raises", "done"},
   step5_create_visualizations |-> {"raises", "empty", "done"}]

\* ResearchGapPipeline.__init__, with the position of run_full_pipeline
NewPipeline ==
  [raw_text |-> None, abstract_records |-> None, topic_model |-> None,
   topics |-> None, visualization_files |-> None,
   pc |-> "idle", next |-> 1, ran |-> <<>>, result |-> None]

\* a step's effect on the pipeline data and its return value
StepResult(self, result) == [self |-> self, result |-> result]

step1_load_from_s3(self, outcome) ==
  CASE outcome \in {"no_connection", "raises"} -> StepResult(self, FALSE)
    [] outcome = "empty" ->
         StepResult([self EXCEPT !.raw_text = Some("")], FALSE)
    [] OTHER -> StepResult([self EXCEPT !.raw_text = Some("text")], TRUE)

step2_parse_abstracts(self, outcome) ==
  IF Falsy(self.raw_text) THEN StepResult(self, FALSE)
  ELSE CASE outcome = "raises" -> StepResult(self, FALSE)
         [] outcome = "empty" ->
              StepResult([self EXCEPT !.abstract_records = Some(<<>>)], FALSE)
         [] OTHER ->
              StepResult([self EXCEPT !.abstract_records = Some(<<"record">>)],
                         TRUE)

step3_extract_themes(self, outcome) ==
  IF self.abstract_records \in {None, Some(<<>>)} THEN StepResult(self, FALSE)
  ELSE IF outcome = "raises" THEN StepResult(self, FALSE)
  ELSE StepResult([self EXCEPT !.topic_model = Some("model"),
                               !.topics = Some(<<0>>)], TRUE)

\* all([self.abstract_records, self.topic_model, self.topics is not None])
DataComplete(self) ==
  /\ self.abstract_records \notin {None, Some(<<>>)}
  /\ self.topic_model # None
  /\ self.topics # None

step4_save_results(self, outcome) ==
  IF ~DataComplete(self) THEN StepResult(self, FALSE)
  ELSE StepResult(self, outcome = "done")

step5_create_visualizations(self, outcome) ==
  IF ~DataComplete(self) THEN StepResult(self, FALSE)
  ELSE IF outcome = "done"
       THEN StepResult([self EXCEPT !.visualization_files = Some(<<"html">>)],
                       TRUE)
       ELSE StepResult(self, FALSE)

\* the variant of the loop that goes on after a step has returned False
AfterStep_continues(self, ok) ==
  [self EXCEPT
     !.ran = Append(@, [step |-> Steps[self.next], result |-> ok]),
     !.next = @ + 1,
     !.pc = IF self.next = Len(Steps) THEN "returned" ELSE "running",
     !.result = IF self.next = Len(Steps) THEN Some(TRUE) ELSE None]

\* the loop of run_full_pipeline after a step has returned:
\* "if not step_func(): return False", and "return True" after the last step
AfterStep(self, ok) ==
  [self EXCEPT
     !.ran = Append(@, [step |-> Steps[self.next], result |-> ok]),
     !.next = IF ok THEN @ + 1 ELSE @,
     !.pc = IF ~ok \/ self.next = Len(Steps) THEN "returned" ELSE "running",
     !.result = IF ~ok THEN Some(FALSE)
                ELSE IF self.next = Len(Steps) THEN Some(TRUE) ELSE None]

InitPipeline ==
  /\ ParserIdle
  /\ calls = 0
  /\ stores = <<>>
  /\ file = None
  /\ threads = <<>>
  /\ globals = <<>>
  /\ papers = <<>>
  /\ pipeline = NewPipeline

\* run_full_pipeline is called, on a new pipeline or on one that has run
RunFullPipeline ==
  /\ pipeline.pc \in {"idle", "returned"}
  /\ calls < MaxOps
  /\ calls' = calls + 1
  /\ pipeline' = [pipeline EXCEPT !.pc = "running", !.next = 1, !.ran = <<>>,
                                  !.result = None]
  /\ UNCHANGED <<parserVars, stores, file, threads, globals, papers>>

\* the loop is at this step
AtStep(step) == pipeline.pc = "running" /\ Steps[pipeline.next] = step

Step1LoadFromS3 ==
  /\ AtStep("step1_load_from_s3")
  /\ \E outcome \in Outcomes["step1_load_from_s3"] :
       LET out == step1_load_from_s3(pipeline, outcome)
       IN pipeline' = AfterStep(out.self, out.result)
  /\ UNCHANGED <<parserVars, calls, stores, file, threads, globals, papers>>

Step2ParseAbstracts ==
  /\ AtStep("step2_parse_abstracts")
  /\ \E outcome \in Outcomes["step2_parse_abstracts"] :
       LET out == step2_parse_abstracts(pipeline, outcome)
       IN pipeline' = AfterStep(out.self, out.result)
  /\ UNCHANGED <<parserVars, calls, stores, file, threads, globals, papers>>

Step3ExtractThemes ==
  /\ AtStep("step3_extract_themes")
  /\ \E outcome \in Outcomes["step3_extract_themes"] :
       LET out == step3_extract_themes(pipeline, outcome)
       IN pipeline' = AfterStep(out.self, out.result)
  /\ UNCHANGED <<parserVars, calls, stores, file, threads, globals, papers>>

Step4SaveResults ==
  /\ AtStep("step4_save_results")
  /\ \E outcome \in Outcomes["step4_save_results"] :
       LET out == step4_save_results(pipeline, outcome)
       IN pipeline' = AfterStep(out.self, out.result)
  /\ UNCHANGED <<parserVars, calls, stores, file, threads, globals, papers>>

Step5CreateVisualizations ==
  /\ AtStep("step5_create_visualizations")
  /\ \E outcome \in Outcomes["step5_create_visualizations"] :
       LET out == step5_create_visualizations(pipeline, outcome)
       IN pipeline' = AfterStep(out.self, out.result)
  /\ UNCHANGED <<parserVars, calls, stores, file, threads, globals, papers>>

NextPipeline ==
  \/ RunFullPipeline
  \/ Step1LoadFromS3
  \/ Step2ParseAbstracts
  \/ Step3ExtractThemes
  \/ Step4SaveResults
  \/ Step5CreateVisualizations

SpecPipeline == InitPipeline /\ [][NextPipeline]_vars

\* ================================================================ C21 .. C30
\* the gaps a store holds
StoredGaps(store) == {store._gaps[gap_id] : gap_id \in DOMAIN store._gaps}

\* C21: after any sequence of add_gap (explicit or generated ids, also under
\* an id already in use), clear and import_from_json, every index query
\* returns exactly the stored gaps with that year, topic or abstract id.
C21_IndexesAgree ==
  \A name \in DOMAIN stores :
    LET store == stores[name]
    IN /\ \A y \in GapYears :
            get_gaps_by_year(store, y)
              = {gap \in StoredGaps(store) : gap.year = Some(y)}
       /\ \A t \in GapTopics :
            get_gaps_by_topic(store, t)
              = {gap \in StoredGaps(store) : gap.topic = Some(t)}
       /\ \A a \in GapAbstractIds :
            get_gaps_by_abstract(store, a)
              = {gap \in StoredGaps(store) : gap.abstract_id = a}

\* the last export_to_json call noted in the log: the store as it was exported
LastExported ==
  LET made == {k \in DOMAIN Log : Log[k].op = "export_to_json"}
      last == CHOOSE k \in made : \A other \in made : other <= k
  IN Log[last].arg

\* what an import has to reproduce
SameContent(a, b) ==
  /\ a._abstracts = b._abstracts
  /\ a._gaps = b._gaps
  /\ \A y \in GapYears : IndexGet(a._gaps_by_year, y) = IndexGet(b._gaps_by_year, y)
  /\ \A t \in GapTopics :
       IndexGet(a._gaps_by_topic, t) = IndexGet(b._gaps_by_topic, t)
  /\ \A id \in GapAbstractIds :
       IndexGet(a._gaps_by_abstract, id) = IndexGet(b._gaps_by_abstract, id)
  /\ a._next_gap_id = b._next_gap_id

\* C22: a store that has just imported an exported file holds the same
\* abstracts, gaps, index contents and next-id counter as the exporting store
\* held when it exported, and nothing of what it held before.
C22_ImportEqualsExport ==
  (Log # <<>> /\ Log[Len(Log)].op = "import_from_json")
    => SameContent(stores[Log[Len(Log)].store], LastExported)

\* the calls made so far are add_abstract calls, each with a different record
DistinctAbstractsOnly ==
  /\ \A k \in DOMAIN Log : Log[k].op = "add_abstract"
  /\ \A j, k \in DOMAIN Log : j # k => Log[j].arg # Log[k].arg

\* C25: k distinct abstract records added to an empty store without explicit
\* id are k stored abstracts, and get_abstract of each returned id gives the
\* record that was added under it.
C25_DistinctAbstractsKept ==
  DistinctAbstractsOnly =>
    /\ get_statistics(stores.source).total_abstracts = Len(Log)
    /\ \A k \in DOMAIN Log :
         get_abstract(stores.source, Log[k].result) = Some(Log[k].arg)

\* C30: add_gap without an explicit gap_id never returns an id that was
\* already a key of the store, whatever add_gap, clear and import_from_json
\* calls came before.
C30_GeneratedIdIsNew ==
  \A k \in DOMAIN Log :
    (Log[k].op = "add_gap" /\ Log[k].id = None) => ~Log[k].existed

\* the add_gap calls that have returned: thread and position in its log
ReturnedAdds ==
  {c \in Threads \X (1 .. MaxOps) :
     /\ c[2] \in DOMAIN threads[c[1]].log
     /\ threads[c[1]].log[c[2]].op = "add_gap"}

AddOf(c) == threads[c[1]].log[c[2]]

\* the gap of a returned add_gap call is in the store and in its indexes
Present(store, call) ==
  /\ call.result \in DOMAIN store._gaps
  /\ store._gaps[call.result] = [call.arg EXCEPT !.gap_id = call.result]
  /\ call.arg.year # None
       => call.result \in IndexGet(store._gaps_by_year, call.arg.year[1])
  /\ call.arg.topic # None
       => call.result \in IndexGet(store._gaps_by_topic, call.arg.topic[1])
  /\ call.result \in IndexGet(store._gaps_by_abstract, call.arg.abstract_id)

Received ==
  {threads[c[1]].log[c[2]] :
     c \in {d \in Callers \X (1 .. MaxOps) : d[2] \in DOMAIN threads[d[1]].log}}

C26_DoiLinkFollowsDoi ==
  \A paper_id \in DOMAIN papers :
    LET paper == papers[paper_id]
    IN IF Falsy(paper.doi) THEN paper.doi_link = None
       ELSE paper.doi_link = Some(DoiLinkOf(paper.doi[1]))

\* every step that has run in this call of run_full_pipeline returned True
AllTrue == \A k \in DOMAIN pipeline.ran : pipeline.ran[k].result

\* C27: run_full_pipeline runs the five steps in their fixed order, runs no
\* step after one that returned False and returns at that step, and its
\* result is True exactly when all five steps have run and returned True.
C27_OrderStopResult ==
  /\ \A k \in DOMAIN pipeline.ran : pipeline.ran[k].step = Steps[k]
  /\ \A k \in DOMAIN pipeline.ran : k < Len(pipeline.ran) => pipeline.ran[k].result
  /\ pipeline.pc = "running" => AllTrue /\ Len(pipeline.ran) < Len(Steps)
  /\ ~AllTrue => pipeline.pc = "returned"
  /\ pipeline.pc = "returned"
       => /\ pipeline.result # None
          /\ pipeline.result = Some(TRUE)
               <=> (AllTrue /\ Len(pipeline.ran) = Len(Steps))

\* a run that stopped at the third step, which returned False, after an
\* earlier run of the same pipeline had completed
C27_Witness ==
  /\ pipeline.pc = "returned"
  /\ pipeline.result = Some(FALSE)
  /\ Len(pipeline.ran) = 3
  /\ pipeline.visualization_files # None

\* an abstract paragraph line follows the position
QualifyingAfter(lines, position) ==
  \E n \in position + 1 .. Len(lines) : AbstractStartsAt(lines[n])

\* C28: when a block has a structural marker (an 'Author information:' line
\* or an author-shaped line) the abstract never starts at a line before the
\* marker, and it is empty when no qualifying line follows the marker: the
\* scan from the third line is used only for blocks without any marker.
C28_FallbackOnlyWithoutMarker ==
  \A k \in 1..Len(parsed) :
    LET lines == ContentLines(parsed[k])
        marker == AuthorSectionAt(lines)
        abstract_text == extract_abstract_text(parsed[k])
    IN marker # 0 =>
         /\ abstract_text # <<>> =>
              \E n \in marker + 1 .. Len(lines) :
                /\ AbstractStartsAt(lines[n])
                /\ abstract_text[1] = lines[n]
                /\ AbstractStart(lines) = n
         /\ ~QualifyingAfter(lines, marker) => abstract_text = <<>>

\* the positions of the lines that extract_title collects, by the same loop
RECURSIVE TitleLinesAt(_, _, _, _)
TitleLinesAt(lines, n, positions, start_collecting) ==
  IF n > Len(lines) THEN positions
  ELSE IF TitleSkipped(n, lines[n])
       THEN TitleLinesAt(lines, n + 1, positions, start_collecting)
  ELSE IF TitleQualifies(lines[n])
       THEN IF n + 1 <= Len(lines) /\ AuthorShaped(lines[n + 1])
            THEN positions \cup {n}
            ELSE TitleLinesAt(lines, n + 1, positions \cup {n}, TRUE)
  ELSE IF start_collecting /\ AuthorShaped(lines[n]) THEN positions
  ELSE IF start_collecting /\ IsAuthorInformation(lines[n]) THEN positions
  ELSE TitleLinesAt(lines, n + 1, positions, start_collecting)

\* the positions of the lines that extract_abstract_text joins
AbstractLinesAt(lines) ==
  IF AbstractStart(lines) = 0 THEN {}
  ELSE AbstractStart(lines) .. AbstractEnd(lines, AbstractStart(lines)) - 1

\* C29: in every returned record the title and the abstract_text are built
\* from disjoint sets of lines of the block, also for blocks without author
\* line and without 'Author information:' line.
C29_TitleAndAbstractDisjoint ==
  \A k \in 1..Len(parsed) :
    LET lines == ContentLines(parsed[k])
    IN Accepted(parsed[k])
         => TitleLinesAt(lines, 1, {}, FALSE) \cap AbstractLinesAt(lines) = {}
====
